---- MODULE Spec2Model ----
(***************************************************************************)
(* Graph execution engine of Visual-Automation.                            *)
(*                                                                         *)
(* Two request handlers execute a workflow graph:                          *)
(*   - POST /api/workflows/execute  (executeCurrentWorkflow): picks the    *)
(*     dependency-aware or the branching strategy;                         *)
(*   - POST /api/workflows/nodes    (WorkflowExecutor + executeWithBranching).*)
(* A run is one sequential traversal; the recursion of the traversal       *)
(* functions is modelled by an explicit call stack.                        *)
(***************************************************************************)
EXTENDS Integers, Sequences, FiniteSets, TLC

\* ------------------------------------------------------------------ bounds
MaxNodes == 3
MaxEdges == 3

VARIABLES
  engine,      \* which request handler serves the run: "execute" or "nodes"
  nodes,       \* request body: the node list
  edges,       \* request body: the edge list
  pc,          \* "request" (handler not yet entered), "running", "done"
  strategy,    \* "none", "dependency" or "branching"
  applied,     \* history: the strategies whose traversal function was entered
  startNode,   \* id of the start node of a branching traversal, 0 when none
  stack,       \* call stack of the recursive traversal function (top = last)
  rootIdx,     \* dependency-aware: index of the next traversal root in allNodeIds
  visited,     \* branching: the visited set
  executed,    \* dependency-aware: the executed set
  executing,   \* dependency-aware: the executing set
  results,     \* the result map (execute) / context.nodeOutputs (nodes)
  variables,   \* nodes engine: context.variables
  execOrder,   \* history: node ids in the order their action completed
  failedAt,    \* history: node ids whose action raised
  followed,    \* history: indices (into edges) of the edges followed, in order
  received,    \* history: per executed node, what getNodeInputData handed it
  observed,    \* history: per executed node, the node ids whose values it read
  expected,    \* history: per executed logic node, the handle chosen for branching
  effective,   \* history: per executed node, its effectiveInputData
  response,    \* the response of the request handler, NoResponse while running
  gemini,      \* collaborator: how callGeminiAPI answers during this run
  supabase,    \* collaborator: per node id, how the insert of its record ends
  node_executions, \* collaborator: the rows of table node_executions
  call,        \* function under test: its name and arguments, NoCall in a run
  ret          \* function under test: what it returned, NoRet before the call

graphVars == <<engine, nodes, edges, pc, strategy, applied, startNode, stack, rootIdx,
               visited, executed, executing, results, variables, execOrder, failedAt,
               followed, received, observed, expected, effective, response>>

vars == <<graphVars, gemini, supabase, node_executions, call, ret>>

\* ------------------------------------------------------------------ values
\* JavaScript values that flow between nodes: strings, objects, undefined.
Str(s) == [kind |-> "string", text |-> s, result |-> FALSE]
Obj(tag, r) == [kind |-> "object", text |-> tag, result |-> r]
Undefined == [kind |-> "undefined", text |-> "", result |-> FALSE]

\* String(value)
ToStr(v) ==
  CASE v.kind = "string" -> v.text
    [] v.kind = "object" -> "[object Object]"
    [] OTHER -> "undefined"

\* JSON.stringify(value) of an object
JsonStringify(v) == "{" \o v.text \o "}"

\* ------------------------------------------------------------------ templates
\* A template string, by its shape: a literal without placeholder, "{{input}}",
\* or "{{<nodeId>.output}}".
TLiteral(s) == [form |-> "literal", text |-> s, node |-> 0]
TInput == [form |-> "input", text |-> "{{input}}", node |-> 0]
TNodeOutput(n) == [form |-> "nodeOutput", text |-> "{{" \o ToString(n) \o ".output}}", node |-> n]
NoTemplate == TLiteral("")

\* ------------------------------------------------------------------ graph
NodeIds == 1..MaxNodes
Handles == {"true", "false", "none"}

\* node configurations by type (type, template field, operator, compareValue)
Config(type, tmpl, op) ==
  [type |-> type, template |-> tmpl, operator |-> op, compareValue |-> "a"]

NodeConfigs ==
  { Config("input", TLiteral("a"), "none"),
    Config("dataEntry", NoTemplate, "none"),
    Config("prompt", TNodeOutput(1), "none"),
    Config("output", NoTemplate, "none"),
    Config("logic", TLiteral("a"), "equals"),
    Config("logic", TInput, "equals") }

MkNode(i, c) ==
  [id |-> i, type |-> c.type, template |-> c.template,
   operator |-> c.operator, compareValue |-> c.compareValue]

\* node lists of 1..MaxNodes nodes with unique ids
NodeLists ==
  UNION { { [i \in 1..n |-> MkNode(i, cs[i])] : cs \in [1..n -> NodeConfigs] }
          : n \in 1..MaxNodes }

HasNode(ns, id) == \E i \in 1..Len(ns) : ns[i].id = id

\* nodes.find(n => n.id === nodeId), for an id that is present
FindNode(ns, id) ==
  ns[CHOOSE i \in 1..Len(ns) : ns[i].id = id /\ \A j \in 1..(i-1) : ns[j].id # id]

TypeOf(ns, id) == IF HasNode(ns, id) THEN FindNode(ns, id).type ELSE "missing"

\* an edge carries a branch label exactly when it leaves a logic node
EdgesFor(ns) ==
  { e \in [source : NodeIds, target : NodeIds, sourceHandle : Handles] :
      (TypeOf(ns, e.source) = "logic") <=> (e.sourceHandle # "none") }

\* position of an edge in the enumeration order of the requests
EdgeKey(e) ==
  ((e.source * (MaxNodes + 1)) + e.target) * 2 + (IF e.sourceHandle = "false" THEN 1 ELSE 0)

\* edge lists of at most MaxEdges distinct edges, listed in ascending or in
\* descending enumeration order (both relative orders of any two edges occur)
EdgeLists(ns) ==
  UNION { { es \in [1..k -> EdgesFor(ns)] :
              \/ \A i, j \in 1..k : i < j => EdgeKey(es[i]) < EdgeKey(es[j])
              \/ \A i, j \in 1..k : i < j => EdgeKey(es[i]) > EdgeKey(es[j]) }
          : k \in 0..MaxEdges }

\* ------------------------------------------------------------------ helpers
\* indices of the edges satisfying P, in list order
RECURSIVE FilterIdx(_, _, _)
FilterIdx(es, P(_), i) ==
  IF i > Len(es) THEN <<>>
  ELSE (IF P(es[i]) THEN <<i>> ELSE <<>>) \o FilterIdx(es, P, i + 1)

\* a filter on the wrong endpoint (edge.source === nodeId)
IncomingIdxBySource(es, id) == LET P(e) == e.source = id IN FilterIdx(es, P, 1)

\* edges.filter(edge => edge.target === nodeId)
IncomingIdx(es, id) == LET P(e) == e.target = id IN FilterIdx(es, P, 1)
\* edges.filter(edge => edge.source === nodeId)
OutgoingIdx(es, id) == LET P(e) == e.source = id IN FilterIdx(es, P, 1)

Range(s) == { s[i] : i \in 1..Len(s) }
Top(stk) == stk[Len(stk)]
Pop(stk) == SubSeq(stk, 1, Len(stk) - 1)

NoResponse ==
  [status |-> 0, success |-> "pending", error |-> "", details |-> "", executedNodes |-> 0]


\* no function is under test while a request is served
NoCall == [fn |-> "none"]
NoRet == [done |-> FALSE]

Get(m, id) == IF id \in DOMAIN m THEN m[id] ELSE Undefined
Put(m, id, v) == (id :> v) @@ m
EmptyMap == [i \in {} |-> Undefined]

\* ================================================= strings, character by character
\* A JavaScript string as the sequence of its characters.

Min(S) == CHOOSE x \in S : \A y \in S : x <= y
Max(S) == CHOOSE x \in S : \A y \in S : y <= x

\* p occurs in s at position i
IsPrefixAt(s, p, i) ==
  /\ i + Len(p) - 1 <= Len(s)
  /\ \A k \in 1..Len(p) : s[i + k - 1] = p[k]

\* s.indexOf(p), counted from 1; 0 when p does not occur
indexOf(s, p) ==
  IF \E i \in 1..(Len(s) + 1) : IsPrefixAt(s, p, i)
  THEN Min({ i \in 1..(Len(s) + 1) : IsPrefixAt(s, p, i) })
  ELSE 0

\* s.includes(p)
includes(s, p) == indexOf(s, p) # 0

\* s.startsWith(p)
startsWith(s, p) == IsPrefixAt(s, p, 1)

\* s.replace(p, r) with a string pattern: the first occurrence only
replace(s, p, r) ==
  IF indexOf(s, p) = 0 THEN s
  ELSE SubSeq(s, 1, indexOf(s, p) - 1) \o r
       \o SubSeq(s, indexOf(s, p) + Len(p), Len(s))

\* s.trim()
trim(s) ==
  LET solid == { i \in 1..Len(s) : s[i] # " " }
  IN IF solid = {} THEN <<>> ELSE SubSeq(s, Min(solid), Max(solid))

\* s.split('.')
RECURSIVE split(_)
split(s) ==
  IF indexOf(s, <<".">>) = 0 THEN <<s>>
  ELSE <<SubSeq(s, 1, indexOf(s, <<".">>) - 1)>>
       \o split(SubSeq(s, indexOf(s, <<".">>) + 1, Len(s)))

\* s.split('.', 2): at most the first two pieces
split2(s) == SubSeq(split(s), 1, IF Len(split(s)) < 2 THEN Len(split(s)) ELSE 2)

\* ---- Number(text): a decimal fraction num / scale, or NaN
Digits == <<"0", "1", "2", "3", "4", "5", "6", "7", "8", "9">>
IsDigit(c) == \E i \in 1..Len(Digits) : Digits[i] = c
DigitValue(c) == (CHOOSE i \in 1..Len(Digits) : Digits[i] = c) - 1
AllDigits(s) == \A i \in 1..Len(s) : IsDigit(s[i])

RECURSIVE DigitsValue(_)
DigitsValue(s) ==
  IF s = <<>> THEN 0
  ELSE DigitsValue(SubSeq(s, 1, Len(s) - 1)) * 10 + DigitValue(s[Len(s)])

RECURSIVE Pow10(_)
Pow10(n) == IF n = 0 THEN 1 ELSE 10 * Pow10(n - 1)

NaN == [nan |-> TRUE, num |-> 0, scale |-> 1]
Num(num, scale) == [nan |-> FALSE, num |-> num, scale |-> scale]

\* Number(text) for text without exponent, radix prefix or "Infinity":
\* white space is trimmed, the empty text is 0, then an optional sign and
\* digits with at most one decimal point; anything else is NaN
Number(chars) ==
  LET t == trim(chars)
      signed == t # <<>> /\ t[1] \in {"+", "-"}
      body == IF signed THEN Tail(t) ELSE t
      dot == indexOf(body, <<".">>)
      whole == IF dot = 0 THEN body ELSE SubSeq(body, 1, dot - 1)
      fraction == IF dot = 0 THEN <<>> ELSE SubSeq(body, dot + 1, Len(body))
      magnitude == DigitsValue(whole \o fraction)
  IN IF t = <<>> THEN Num(0, 1)
     ELSE IF AllDigits(whole) /\ AllDigits(fraction) /\ Len(whole) + Len(fraction) > 0
          THEN Num(IF signed /\ t[1] = "-" THEN 0 - magnitude ELSE magnitude,
                   Pow10(Len(fraction)))
          ELSE NaN

\* a < b and a <= b on numbers: false when either side is NaN
NumberLess(a, b) == ~a.nan /\ ~b.nan /\ a.num * b.scale < b.num * a.scale
NumberLessOrEqual(a, b) == ~a.nan /\ ~b.nan /\ a.num * b.scale <= b.num * a.scale

\* ================================================= /api/workflows/execute

\* an evaluator that accepts what it does not recognise
evaluateConditionFailOpen(value, compareValue, operator) ==
  CASE operator = "equals" -> value = compareValue
    [] operator = "notEquals" -> value # compareValue
    [] operator = "greaterThan" -> NumberLess(Number(compareValue), Number(value))
    [] operator = "lessThan" -> NumberLess(Number(value), Number(compareValue))
    [] operator = "greaterThanOrEqual" ->
         NumberLessOrEqual(Number(compareValue), Number(value))
    [] operator = "lessThanOrEqual" ->
         NumberLessOrEqual(Number(value), Number(compareValue))
    [] operator = "contains" -> includes(value, compareValue)
    [] OTHER -> TRUE

\* evaluateCondition(value, compareValue, operator)
evaluateCondition(value, compareValue, operator) ==
  CASE operator = "equals" -> value = compareValue
    [] operator = "notEquals" -> value # compareValue
    [] operator = "greaterThan" -> NumberLess(Number(compareValue), Number(value))
    [] operator = "lessThan" -> NumberLess(Number(value), Number(compareValue))
    [] operator = "greaterThanOrEqual" ->
         NumberLessOrEqual(Number(compareValue), Number(value))
    [] operator = "lessThanOrEqual" ->
         NumberLessOrEqual(Number(value), Number(compareValue))
    [] operator = "contains" -> includes(value, compareValue)
    [] OTHER -> FALSE

\* processTemplate(template, context): context is the result map, keyed by node id
processTemplate(template, context) ==
  CASE template.form = "literal" -> template.text
    [] template.form = "input" ->
         \* no '.', context.get('input'): no node id is the string "input"
         template.text
    [] template.form = "nodeOutput" ->
         \* no result object of the modelled types has an 'output' property:
         \* property === 'output' && nodeResult -> the entire node result
         IF template.node \in DOMAIN context
         THEN (IF context[template.node].kind = "string"
               THEN context[template.node].text
               ELSE JsonStringify(context[template.node]))
         ELSE template.text

\* the node ids whose results a template resolution reads
TemplateReads(template, context) ==
  IF template.form = "nodeOutput" /\ template.node \in DOMAIN context
  THEN {template.node} ELSE {}

\* the outputs of the nodes the node points to, instead of those pointing to it
getNodeInputDataOfSuccessors(nodeId, es, res) ==
  LET out == OutgoingIdx(es, nodeId)
  IN [i \in 1..Len(out) |->
        [source |-> es[out[i]].target, value |-> Get(res, es[out[i]].target)]]

\* getNodeInputData(nodeId, edges, results): one entry per incoming edge, in edge
\* order, carrying results.get(edge.source) (Undefined when the source has no entry)
getNodeInputData(nodeId, es, res) ==
  LET inc == IncomingIdx(es, nodeId)
  IN [i \in 1..Len(inc) |->
        [source |-> es[inc[i]].source, value |-> Get(res, es[inc[i]].source)]]

\* return null // No input connections
Null == [kind |-> "null", text |-> "", result |-> FALSE]

\* the run's externally supplied initial input: inputData || {}
InputData == Obj("inputData", FALSE)

\* the key `input_${index}` of the combined input
InputKey(index) == "input_" \o ToString(index)

\* combinedInput after the forEach over the incoming edges: every edge writes its
\* positional key and the key of its source id, a later write replacing an earlier
combinedInput(entries) ==
  LET keys == { InputKey(i - 1) : i \in 1..Len(entries) }
                \cup { ToString(entries[i].source) : i \in 1..Len(entries) }
      writes(k) == { i \in 1..Len(entries) :
                      k = InputKey(i - 1) \/ k = ToString(entries[i].source) }
      last(k) == CHOOSE i \in writes(k) : \A j \in writes(k) : j <= i
  IN [kind |-> "combined", fields |-> [k \in keys |-> entries[last(k)].value]]

\* what getNodeInputData returns, from the entries of the incoming edges
nodeInputData(entries) ==
  IF Len(entries) = 0 THEN Null
  ELSE IF Len(entries) = 1 THEN entries[1].value
  ELSE combinedInput(entries)

\* a value that || treats as false
Falsy(v) ==
  v.kind \in {"undefined", "null"} \/ (v.kind = "string" /\ v.text = "")

\* a node input without the fallback to inputData
effectiveInputDataNoFallback(entries) == nodeInputData(entries)

\* const effectiveInputData = nodeInputData || inputData
effectiveInputData(entries) ==
  IF Falsy(nodeInputData(entries)) THEN InputData ELSE nodeInputData(entries)

\* ---- callGeminiAPI(processedPrompt, model), as the prompt case calls it
GeminiError == "quota exceeded"
GeminiText == "gemini response"
ErrorFromGemini == "Error from Gemini API: " \o GeminiError
FailedToCallGemini == "Failed to call Gemini API: " \o GeminiError

\* a call of callGeminiAPI outside any try block
callGeminiUnguarded ==
  CASE gemini = "success" -> [thrown |-> FALSE, error |-> "", response |-> GeminiText]
    [] gemini = "unsuccessful" ->
         [thrown |-> FALSE, error |-> GeminiError, response |-> ErrorFromGemini]
    [] gemini = "raises" ->
         [thrown |-> TRUE, error |-> GeminiError, response |-> ""]

\* try { geminiResponse = await callGeminiAPI(...) ... } catch (error) { ... }:
\* the response text of the prompt node, the error it carries, and whether an
\* error leaves the block
tryCallGemini ==
  CASE gemini = "success" -> [thrown |-> FALSE, error |-> "", response |-> GeminiText]
    [] gemini = "unsuccessful" ->
         [thrown |-> FALSE, error |-> GeminiError, response |-> ErrorFromGemini]
    [] gemini = "raises" ->
         [thrown |-> FALSE, error |-> GeminiError, response |-> FailedToCallGemini]

\* the types with a case in the switch of executeNode
NodeTypes ==
  {"input", "prompt", "api", "logic", "dataEntry", "fileToText", "fileUpload", "output"}
UnknownNodeType == "Unknown node type"

\* a switch whose default case names the result by the node's type, untagged
executeNodeUntagged(node, res) ==
  CASE node.type = "logic" ->
         Obj("logic",
             evaluateCondition(processTemplate(node.template, res),
                               node.compareValue, node.operator))
    [] node.type = "prompt" ->
         IF tryCallGemini.error = "" THEN Obj("prompt", FALSE)
         ELSE Obj(tryCallGemini.response, FALSE)
    [] OTHER -> Obj(node.type, FALSE)

\* the switch of executeNode: the result object of a node, named by its type, or
\* by its response text when the call of a prompt node failed
executeNode(node, res) ==
  CASE node.type = "logic" ->
         Obj("logic",
             evaluateCondition(processTemplate(node.template, res),
                               node.compareValue, node.operator))
    [] node.type = "prompt" ->
         IF tryCallGemini.error = "" THEN Obj("prompt", FALSE)
         ELSE Obj(tryCallGemini.response, FALSE)
    [] node.type \in NodeTypes \ {"logic", "prompt"} -> Obj(node.type, FALSE)
    [] OTHER -> Obj(UnknownNodeType, FALSE)

\* an error leaves the switch of executeNode
Throws(node) == node.type = "prompt" /\ tryCallGemini.thrown

\* the node ids whose stored values executeNode reads while it runs node
NodeReads(node, es, res) ==
  { e.source : e \in { r \in Range(getNodeInputData(node.id, es, res)) :
                         r.value # Undefined } }
  \cup (IF node.type \in {"prompt", "logic"}
        THEN TemplateReads(node.template, res) ELSE {})
  \cup (IF node.type = "output" THEN DOMAIN res ELSE {})

\* only the first node is inspected
hasLogicNodesFirstOnly(ns) == ns[1].type = "logic"

\* nodes.some(node => node.type === 'logic')
hasLogicNodes(ns) == \E i \in 1..Len(ns) : ns[i].type = "logic"

\* nodes.find(P): index of the first node satisfying P, 0 when none
FirstIdx(ns, P(_)) ==
  IF \E i \in 1..Len(ns) : P(ns[i])
  THEN CHOOSE i \in 1..Len(ns) : P(ns[i]) /\ \A j \in 1..(i-1) : ~P(ns[j])
  ELSE 0

\* the dataEntry lookup placed before the input lookup
findStartingNodeDataEntryFirst(ns, es) ==
  LET isInput(n) == n.type = "input"
      isDataEntry(n) == n.type = "dataEntry"
      nodesWithIncoming == { es[i].target : i \in 1..Len(es) }
      isOrphan(n) == n.id \notin nodesWithIncoming
  IN IF FirstIdx(ns, isDataEntry) # 0 THEN ns[FirstIdx(ns, isDataEntry)].id
     ELSE IF FirstIdx(ns, isInput) # 0 THEN ns[FirstIdx(ns, isInput)].id
     ELSE IF FirstIdx(ns, isOrphan) # 0 THEN ns[FirstIdx(ns, isOrphan)].id
     ELSE 0

\* findStartingNode(nodes, edges): id of the start node, 0 for null
findStartingNode(ns, es) ==
  LET isInput(n) == n.type = "input"
      isDataEntry(n) == n.type = "dataEntry"
      nodesWithIncoming == { es[i].target : i \in 1..Len(es) }
      isOrphan(n) == n.id \notin nodesWithIncoming
  IN IF FirstIdx(ns, isInput) # 0 THEN ns[FirstIdx(ns, isInput)].id
     ELSE IF FirstIdx(ns, isDataEntry) # 0 THEN ns[FirstIdx(ns, isDataEntry)].id
     ELSE IF FirstIdx(ns, isOrphan) # 0 THEN ns[FirstIdx(ns, isOrphan)].id
     ELSE 0

Frame(id, phase) == [node |-> id, phase |-> phase, k |-> 1]
Advance(stk) == [stk EXCEPT ![Len(stk)].k = @ + 1]

ErrNoStart == "No starting node found (input, dataEntry, or orphaned node)"
ErrNode == "node action failed"
ErrInsert == "insert failed"

\* an insert that drops the record of a failed node
insertCompletedOnly(table, id, status, error_message) ==
  IF supabase[id] = "stored" /\ status = "completed"
  THEN table \cup {[node_id |-> id, status |-> status, error_message |-> error_message]}
  ELSE table

\* supabase.from("node_executions").insert(row): the table after the call; the row
\* is added only when the insert is stored
insert(table, id, status, error_message) ==
  IF supabase[id] = "stored"
  THEN table \cup {[node_id |-> id, status |-> status, error_message |-> error_message]}
  ELSE table

\* the message of the error executeNode throws for node id: an insert that raises
\* does so in the try block and again in the catch block, whose error replaces
\* the one caught
Thrown(id) ==
  IF supabase[id] = "raises" THEN ErrInsert
  ELSE IF Throws(FindNode(nodes, id)) THEN GeminiError ELSE ErrNode

\* executeCurrentWorkflow's return value, as the handler's JSON response
ExecSuccess ==
  [status |-> 200, success |-> "true", error |-> "", details |-> "", executedNodes |-> 0]
\* a catch block that still reports success
ExecFailureReportedAsSuccess(msg) ==
  [status |-> 200, success |-> "true", error |-> msg, details |-> "", executedNodes |-> 0]
ExecFailure(msg) ==
  [status |-> 200, success |-> "false", error |-> msg, details |-> "", executedNodes |-> 0]

\* a call of executeNodeChain that does not consult visited
BrEnterRevisiting(nodeId, stk) ==
  /\ visited' = visited \cup {nodeId}
  /\ stack' = IF HasNode(nodes, nodeId)
              THEN Append(stk, Frame(nodeId, "exec")) ELSE stk

\* a call executeNodeChain(nodeId) of executeBranchingWorkflow, made with stack stk
BrEnter(nodeId, stk) ==
  IF nodeId \in visited
  THEN stack' = stk /\ visited' = visited
  ELSE /\ visited' = visited \cup {nodeId}
       /\ stack' = IF HasNode(nodes, nodeId)
                   THEN Append(stk, Frame(nodeId, "exec")) ELSE stk

\* the guard without executed.has(nodeId)
DepEnterWithoutExecutedCheck(nodeId, stk) ==
  IF nodeId \in executing
  THEN stack' = stk /\ executing' = executing
  ELSE IF ~HasNode(nodes, nodeId)
  THEN stack' = stk /\ executing' = executing
  ELSE /\ executing' = executing \cup {nodeId}
       /\ stack' = Append(stk, Frame(nodeId, "deps"))

\* a call that gives up the dependent node when a dependency has no node
DepEnterStoppingAtMissing(nodeId, stk) ==
  IF nodeId \in executed \cup executing
  THEN stack' = stk /\ executing' = executing
  ELSE IF ~HasNode(nodes, nodeId)
  THEN stack' = <<>> /\ executing' = executing
  ELSE /\ executing' = executing \cup {nodeId}
       /\ stack' = Append(stk, Frame(nodeId, "deps"))

\* the guard without executing.has(nodeId)
DepEnterWithoutExecutingCheck(nodeId, stk) ==
  IF nodeId \in executed
  THEN stack' = stk /\ executing' = executing
  ELSE IF ~HasNode(nodes, nodeId)
  THEN stack' = stk /\ executing' = executing
  ELSE /\ executing' = executing \cup {nodeId}
       /\ stack' = Append(stk, Frame(nodeId, "deps"))

\* a call executeNodeWithDependencies(nodeId), made with stack stk
DepEnter(nodeId, stk) ==
  IF nodeId \in executed \cup executing
  THEN stack' = stk /\ executing' = executing
  ELSE IF ~HasNode(nodes, nodeId)
  THEN stack' = stk /\ executing' = executing
  ELSE /\ executing' = executing \cup {nodeId}
       /\ stack' = Append(stk, Frame(nodeId, "deps"))

\* executeCurrentWorkflow, up to the first await of the chosen traversal
ExecuteCurrentWorkflow ==
  /\ pc = "request" /\ engine = "execute"
  /\ IF hasLogicNodes(nodes)
     THEN IF findStartingNode(nodes, edges) = 0
          THEN /\ pc' = "done"
               /\ response' = ExecFailure(ErrNoStart)
               /\ UNCHANGED <<strategy, applied, startNode, stack, visited>>
          ELSE /\ pc' = "running"
               /\ strategy' = "branching"
               /\ applied' = applied \cup {"branching"}
               /\ startNode' = findStartingNode(nodes, edges)
               /\ BrEnter(findStartingNode(nodes, edges), stack)
               /\ UNCHANGED response
     ELSE /\ pc' = "running"
          /\ strategy' = "dependency"
          /\ applied' = applied \cup {"dependency"}
          /\ UNCHANGED <<startNode, stack, visited, response>>
  /\ UNCHANGED <<call, ret, gemini, supabase, node_executions, effective>>
  /\ UNCHANGED <<engine, nodes, edges, rootIdx, executed, executing, results,
                 variables, execOrder, failedAt, followed, received, observed,
                 expected>>

\* ---- dependency-aware strategy (executeDependencyAwareWorkflow)

\* for (const nodeId of allNodeIds) await executeNodeWithDependencies(nodeId)
DepRoot ==
  /\ pc = "running" /\ strategy = "dependency" /\ stack = <<>>
  /\ rootIdx <= Len(nodes)
  /\ rootIdx' = rootIdx + 1
  /\ DepEnter(nodes[rootIdx].id, stack)
  /\ UNCHANGED <<call, ret, gemini, supabase, node_executions, effective>>
  /\ UNCHANGED <<engine, nodes, edges, pc, strategy, applied, startNode, visited,
                 executed, results, variables, execOrder, failedAt, followed,
                 received, observed, expected, response>>

\* for (const dep of dependencies) await executeNodeWithDependencies(dep.source)
DepDependency ==
  /\ pc = "running" /\ strategy = "dependency" /\ stack # <<>>
  /\ LET f == Top(stack)
         deps == IncomingIdx(edges, f.node)
     IN /\ f.k <= Len(deps)
        /\ DepEnter(edges[deps[f.k]].source, Advance(stack))
        /\ followed' = Append(followed, deps[f.k])
  /\ UNCHANGED <<call, ret, gemini, supabase, node_executions, effective>>
  /\ UNCHANGED <<engine, nodes, edges, pc, strategy, applied, startNode, rootIdx,
                 visited, executed, results, variables, execOrder, failedAt,
                 received, observed, expected, response>>

\* executeNode(node, ...) of the current node, results.set, executed.add
DepExecute ==
  /\ pc = "running" /\ strategy = "dependency" /\ stack # <<>>
  /\ LET f == Top(stack)
         node == FindNode(nodes, f.node)
     IN /\ f.k > Len(IncomingIdx(edges, f.node))
        /\ \E raises \in BOOLEAN :
             IF raises \/ Throws(node) \/ supabase[f.node] = "raises"
             THEN /\ failedAt' = Append(failedAt, f.node)
                  /\ node_executions' = insert(node_executions, f.node, "failed", Thrown(f.node))
                  /\ stack' = <<>>
                  /\ pc' = "done"
                  /\ response' = ExecFailure(Thrown(f.node))
                  /\ UNCHANGED <<results, executed, executing, execOrder,
                                 received, observed, effective>>
             ELSE /\ results' = Put(results, f.node, executeNode(node, results))
                  /\ node_executions' = insert(node_executions, f.node, "completed", "")
                  /\ received' = Put(received, f.node,
                                     getNodeInputData(f.node, edges, results))
                  /\ effective' = Put(effective, f.node,
                        effectiveInputData(getNodeInputData(f.node, edges, results)))
                  /\ observed' = Put(observed, f.node, NodeReads(node, edges, results))
                  /\ execOrder' = Append(execOrder, f.node)
                  /\ executed' = executed \cup {f.node}
                  /\ executing' = executing \ {f.node}
                  /\ stack' = Pop(stack)
                  /\ UNCHANGED <<failedAt, pc, response>>
  /\ UNCHANGED <<call, ret, gemini, supabase>>
  /\ UNCHANGED <<engine, nodes, edges, strategy, applied, startNode, rootIdx,
                 visited, variables, followed, expected>>

\* every root was visited: executeCurrentWorkflow returns success
DepDone ==
  /\ pc = "running" /\ strategy = "dependency" /\ stack = <<>>
  /\ rootIdx > Len(nodes)
  /\ pc' = "done"
  /\ response' = ExecSuccess
  /\ UNCHANGED <<call, ret, gemini, supabase, node_executions, effective>>
  /\ UNCHANGED <<engine, nodes, edges, strategy, applied, startNode, stack, rootIdx,
                 visited, executed, executing, results, variables, execOrder,
                 failedAt, followed, received, observed, expected>>

\* ---- branching strategy (executeBranchingWorkflow)

\* expectedHandle = logicResult.result ? 'true' : 'false'
HandleOf(b) == IF b THEN "true" ELSE "false"

\* the first outgoing edge, whatever its label
TargetEdgeIgnoringHandle(es, id, handle) ==
  IF OutgoingIdx(es, id) = <<>> THEN 0 ELSE OutgoingIdx(es, id)[1]

\* outgoingEdges.find(edge => edge.sourceHandle === expectedHandle): edge index, 0 when none
TargetEdge(es, id, handle) ==
  LET out == OutgoingIdx(es, id)
  IN IF \E i \in 1..Len(out) : es[out[i]].sourceHandle = handle
     THEN out[CHOOSE i \in 1..Len(out) :
                /\ es[out[i]].sourceHandle = handle
                /\ \A j \in 1..(i-1) : es[out[j]].sourceHandle # handle]
     ELSE 0

\* executeNode(node, ...) of the current node and results.set
BrExecute ==
  /\ pc = "running" /\ engine = "execute" /\ strategy = "branching" /\ stack # <<>>
  /\ LET f == Top(stack)
         node == FindNode(nodes, f.node)
         nodeResult == executeNode(node, results)
     IN /\ f.phase = "exec"
        /\ \E raises \in BOOLEAN :
             IF raises \/ Throws(node) \/ supabase[f.node] = "raises"
             THEN /\ failedAt' = Append(failedAt, f.node)
                  /\ node_executions' = insert(node_executions, f.node, "failed", Thrown(f.node))
                  /\ stack' = <<>>
                  /\ pc' = "done"
                  /\ response' = ExecFailure(Thrown(f.node))
                  /\ UNCHANGED <<results, execOrder, received, observed, expected,
                                 effective>>
             ELSE /\ results' = Put(results, f.node, nodeResult)
                  /\ node_executions' = insert(node_executions, f.node, "completed", "")
                  /\ received' = Put(received, f.node,
                                     getNodeInputData(f.node, edges, results))
                  /\ effective' = Put(effective, f.node,
                        effectiveInputData(getNodeInputData(f.node, edges, results)))
                  /\ observed' = Put(observed, f.node, NodeReads(node, edges, results))
                  /\ execOrder' = Append(execOrder, f.node)
                  /\ expected' = IF node.type = "logic"
                                 THEN Put(expected, f.node, HandleOf(nodeResult.result))
                                 ELSE expected
                  /\ stack' = [stack EXCEPT ![Len(stack)].phase = "follow"]
                  /\ UNCHANGED <<failedAt, pc, response>>
  /\ UNCHANGED <<call, ret, gemini, supabase>>
  /\ UNCHANGED <<engine, nodes, edges, strategy, applied, startNode, rootIdx,
                 visited, executed, executing, variables, followed>>

\* the edge the frame on top of the stack follows next, 0 when it has none left
NextEdge(f) ==
  LET out == OutgoingIdx(edges, f.node)
  IN IF TypeOf(nodes, f.node) = "logic"
     THEN (IF f.k = 1 THEN TargetEdge(edges, f.node, expected[f.node]) ELSE 0)
     ELSE (IF f.k <= Len(out) THEN out[f.k] ELSE 0)

\* await executeNodeChain(edge.target) along the next outgoing edge
BrFollow ==
  /\ pc = "running" /\ engine = "execute" /\ strategy = "branching" /\ stack # <<>>
  /\ Top(stack).phase = "follow"
  /\ NextEdge(Top(stack)) # 0
  /\ followed' = Append(followed, NextEdge(Top(stack)))
  /\ BrEnter(edges[NextEdge(Top(stack))].target, Advance(stack))
  /\ UNCHANGED <<call, ret, gemini, supabase, node_executions, effective>>
  /\ UNCHANGED <<engine, nodes, edges, pc, strategy, applied, startNode, rootIdx,
                 executed, executing, results, variables, execOrder, failedAt,
                 received, observed, expected, response>>

\* executeNodeChain returns to its caller
BrReturn ==
  /\ pc = "running" /\ engine = "execute" /\ strategy = "branching" /\ stack # <<>>
  /\ Top(stack).phase = "follow"
  /\ NextEdge(Top(stack)) = 0
  /\ stack' = Pop(stack)
  /\ UNCHANGED <<call, ret, gemini, supabase, node_executions, effective>>
  /\ UNCHANGED <<engine, nodes, edges, pc, strategy, applied, startNode, rootIdx,
                 visited, executed, executing, results, variables, execOrder,
                 failedAt, followed, received, observed, expected, response>>

\* executeNodeChain(startNodeId) returned: executeCurrentWorkflow returns success
BrDone ==
  /\ pc = "running" /\ engine = "execute" /\ strategy = "branching" /\ stack = <<>>
  /\ pc' = "done"
  /\ response' = ExecSuccess
  /\ UNCHANGED <<call, ret, gemini, supabase, node_executions, effective>>
  /\ UNCHANGED <<engine, nodes, edges, strategy, applied, startNode, stack, rootIdx,
                 visited, executed, executing, results, variables, execOrder,
                 failedAt, followed, received, observed, expected>>

\* =================================================== /api/workflows/nodes

\* the key `${nodeId}.output` of context.variables
OutputKey(id) == ToString(id) \o ".output"

\* WorkflowExecutor.getVariable(path): neither "input" nor "<id>.output" resolves
\* through the nested lookup when the exact key is absent
WorkflowExecutor_getVariable(path, vs) ==
  IF path \in DOMAIN vs THEN vs[path] ELSE Undefined

\* the path between the braces of a template
PathOf(template) ==
  IF template.form = "input" THEN "input" ELSE OutputKey(template.node)

\* WorkflowExecutor.processTemplate(template)
WorkflowExecutor_processTemplate(template, vs) ==
  IF template.form = "literal" THEN template.text
  ELSE IF WorkflowExecutor_getVariable(PathOf(template), vs) # Undefined
       THEN ToStr(WorkflowExecutor_getVariable(PathOf(template), vs))
       ELSE template.text

\* WorkflowExecutor.evaluateCondition(value, compareValue, operator)
WorkflowExecutor_evaluateCondition(value, compareValue, operator) ==
  CASE operator = "equals" -> value = compareValue
    [] operator = "notEquals" -> value # compareValue
    [] operator = "greaterThan" -> NumberLess(Number(compareValue), Number(value))
    [] operator = "lessThan" -> NumberLess(Number(value), Number(compareValue))
    [] operator = "greaterThanOrEqual" ->
         NumberLessOrEqual(Number(compareValue), Number(value))
    [] operator = "lessThanOrEqual" ->
         NumberLessOrEqual(Number(value), Number(compareValue))
    [] operator = "contains" -> includes(value, compareValue)
    [] OTHER -> FALSE

\* the condition of a logic node, evaluated against the current variables
LogicEvaluation(node, vs) ==
  WorkflowExecutor_evaluateCondition(
    WorkflowExecutor_processTemplate(node.template, vs), node.compareValue, node.operator)

\* WorkflowExecutor.executeLogicNode(node).result
WorkflowExecutor_executeLogicNode(node, vs) == LogicEvaluation(node, vs)

\* const currentInput = this.context.variables['input'] || 'No input yet'
CurrentInput(vs) ==
  IF "input" \in DOMAIN vs /\ vs["input"] # Str("") THEN vs["input"] ELSE Str("No input yet")

\* the switch of WorkflowExecutor.executeNode: the output of a node
WorkflowExecutor_executeNode(node, vs) ==
  CASE node.type = "input" -> Str(node.template.text)
    [] node.type = "prompt" -> Str(tryCallGemini.response)
    [] node.type = "logic" -> Obj("logic", LogicEvaluation(node, vs))
    [] node.type = "output" -> Obj("output", FALSE)
    [] OTHER -> CurrentInput(vs)

\* a setNodeOutput that assigns a fresh variables object
setNodeOutputFreshVariables(vs, nodeId, output) ==
  Put(Put(EmptyMap, OutputKey(nodeId), output), "input", output)

\* WorkflowExecutor.setNodeOutput(nodeId, output), on context.variables
setNodeOutput(vs, nodeId, output) ==
  Put(Put(vs, OutputKey(nodeId), output), "input", output)

\* the node ids whose values WorkflowExecutor.executeNode reads while it runs node
\* (the writer of variables['input'] is the node executed last)
ExecutorReads(node, vs, order) ==
  LET lastWriter == IF order = <<>> THEN {} ELSE {order[Len(order)]}
      viaTemplate ==
        IF node.type \in {"prompt", "logic"} /\ node.template.form = "input" THEN lastWriter
        ELSE IF node.type \in {"prompt", "logic"} /\ node.template.form = "nodeOutput"
                /\ OutputKey(node.template.node) \in DOMAIN vs
        THEN {node.template.node}
        ELSE {}
      viaCurrentInput ==
        IF node.type \in {"input", "prompt", "logic"} THEN {} ELSE lastWriter
  IN viaTemplate \cup viaCurrentInput

ErrNoInput == "No input node found"

NodesSuccess(n) ==
  [status |-> 200, success |-> "true", error |-> "", details |-> "", executedNodes |-> n]
NodesFailure(msg) ==
  [status |-> 500, success |-> "absent", error |-> "Workflow execution failed",
   details |-> msg, executedNodes |-> 0]

\* a call executeNodeChain(nodeId) of executeWithBranching, made with stack stk
ChainEnter(nodeId, stk) ==
  IF nodeId \in visited
  THEN stack' = stk /\ visited' = visited
  ELSE /\ visited' = visited \cup {nodeId}
       /\ stack' = IF HasNode(nodes, nodeId)
                   THEN Append(stk, Frame(nodeId, "exec")) ELSE stk

\* POST and executeWorkflow(nodes, edges), up to the first await of the traversal
ExecuteWorkflow ==
  /\ pc = "request" /\ engine = "nodes"
  /\ LET isInput(n) == n.type = "input"
         start == FirstIdx(nodes, isInput)
     IN IF start = 0
        THEN /\ pc' = "done"
             /\ response' = NodesFailure(ErrNoInput)
             /\ UNCHANGED <<strategy, applied, startNode, stack, visited>>
        ELSE /\ pc' = "running"
             /\ strategy' = "branching"
             /\ applied' = applied \cup {"branching"}
             /\ startNode' = nodes[start].id
             /\ ChainEnter(nodes[start].id, stack)
             /\ UNCHANGED response
  /\ UNCHANGED <<call, ret, gemini, supabase, node_executions, effective>>
  /\ UNCHANGED <<engine, nodes, edges, rootIdx, executed, executing, results,
                 variables, execOrder, failedAt, followed, received, observed,
                 expected>>

\* await executor.executeNode(node); executedNodes.push(nodeId); for a logic node
\* also executor.executeLogicNode(node), which runs before the next await
ChainExecute ==
  /\ pc = "running" /\ engine = "nodes" /\ stack # <<>>
  /\ LET f == Top(stack)
         node == FindNode(nodes, f.node)
         output == WorkflowExecutor_executeNode(node, variables)
         after == setNodeOutput(variables, f.node, output)
     IN /\ f.phase = "exec"
        /\ IF Throws(node)
           THEN /\ failedAt' = Append(failedAt, f.node)
                /\ stack' = <<>>
                /\ pc' = "done"
                /\ response' = NodesFailure(GeminiError)
                /\ UNCHANGED <<results, variables, observed, execOrder, expected>>
           ELSE /\ results' = Put(results, f.node, output)
                /\ variables' = after
                /\ observed' = Put(observed, f.node,
                                   ExecutorReads(node, variables, execOrder))
                /\ execOrder' = Append(execOrder, f.node)
                /\ expected' =
                     IF node.type = "logic"
                     THEN Put(expected, f.node,
                              HandleOf(WorkflowExecutor_executeLogicNode(node, after)))
                     ELSE expected
                /\ stack' = [stack EXCEPT ![Len(stack)].phase = "follow"]
                /\ UNCHANGED <<failedAt, pc, response>>
  /\ UNCHANGED <<call, ret, gemini, supabase, node_executions, effective>>
  /\ UNCHANGED <<engine, nodes, edges, strategy, applied, startNode, rootIdx,
                 visited, executed, executing, followed, received>>

\* await executeNodeChain(edge.target) along the next outgoing edge
ChainFollow ==
  /\ pc = "running" /\ engine = "nodes" /\ stack # <<>>
  /\ Top(stack).phase = "follow"
  /\ NextEdge(Top(stack)) # 0
  /\ followed' = Append(followed, NextEdge(Top(stack)))
  /\ ChainEnter(edges[NextEdge(Top(stack))].target, Advance(stack))
  /\ UNCHANGED <<call, ret, gemini, supabase, node_executions, effective>>
  /\ UNCHANGED <<engine, nodes, edges, pc, strategy, applied, startNode, rootIdx,
                 executed, executing, results, variables, execOrder, failedAt,
                 received, observed, expected, response>>

\* executeNodeChain returns to its caller
ChainReturn ==
  /\ pc = "running" /\ engine = "nodes" /\ stack # <<>>
  /\ Top(stack).phase = "follow"
  /\ NextEdge(Top(stack)) = 0
  /\ stack' = Pop(stack)
  /\ UNCHANGED <<call, ret, gemini, supabase, node_executions, effective>>
  /\ UNCHANGED <<engine, nodes, edges, pc, strategy, applied, startNode, rootIdx,
                 visited, executed, executing, results, variables, execOrder,
                 failedAt, followed, received, observed, expected, response>>

\* executeWithBranching returned: POST answers with the context
ChainDone ==
  /\ pc = "running" /\ engine = "nodes" /\ stack = <<>>
  /\ pc' = "done"
  /\ response' = NodesSuccess(Len(nodes))
  /\ UNCHANGED <<call, ret, gemini, supabase, node_executions, effective>>
  /\ UNCHANGED <<engine, nodes, edges, strategy, applied, startNode, stack, rootIdx,
                 visited, executed, executing, results, variables, execOrder,
                 failedAt, followed, received, observed, expected>>

\* ================================================= keys and values of a context

\* 'input_1753600591013_e9ksojj74'
LegacyId ==
  <<"i","n","p","u","t","_","1","7","5","3","6","0","0","5","9","1","0","1","3",
    "_","e","9","k","s","o","j","j","7","4">>

DotOutput == <<".","o","u","t","p","u","t">>
DotData == <<".","d","a","t","a">>
KeyInput == <<"i","n","p","u","t">>
KeyOutput == <<"o","u","t","p","u","t">>
NodePrefix == <<"n","o","d","e","_">>

\* ---- values held by a context: strings, and objects whose properties are strings
TStr(chars) == [kind |-> "string", chars |-> chars, props |-> <<>>]
\* an object, by the list of its properties in insertion order
TObj(props) == [kind |-> "object", chars |-> <<>>, props |-> props]
TUndefined == [kind |-> "undefined", chars |-> <<>>, props |-> <<>>]

\* JSON.stringify of the characters of a string: quotes and backslashes escaped
RECURSIVE Escape(_)
Escape(chars) ==
  IF chars = <<>> THEN <<>>
  ELSE IF Len(chars) = 1
  THEN (IF chars[1] \in {"\"", "\\"} THEN <<"\\", chars[1]>> ELSE chars)
  ELSE Escape(SubSeq(chars, 1, Len(chars) \div 2))
       \o Escape(SubSeq(chars, Len(chars) \div 2 + 1, Len(chars)))

\* a property whose value is a string: String(value) and JSON.stringify(value)
PStr(key, chars) ==
  [key |-> key, chars |-> chars, json |-> <<"\"">> \o Escape(chars) \o <<"\"">>]
\* a property whose value is no string, by its String(value) and JSON.stringify(value)
PRaw(key, chars, json) == [key |-> key, chars |-> chars, json |-> json]

\* property in object
HasProp(v, key) == \E i \in 1..Len(v.props) : v.props[i].key = key
\* object[property]
Prop(v, key) == v.props[CHOOSE i \in 1..Len(v.props) : v.props[i].key = key].chars

\* String(value)
StringOf(v) ==
  CASE v.kind = "string" -> v.chars
    [] v.kind = "object" ->
         <<"[","o","b","j","e","c","t"," ","O","b","j","e","c","t","]">>
    [] OTHER -> <<"u","n","d","e","f","i","n","e","d">>

\* the members "key":value of JSON.stringify(object), comma separated
RECURSIVE JsonMembers(_)
JsonMembers(props) ==
  IF props = <<>> THEN <<>>
  ELSE <<"\"">> \o props[1].key \o <<"\"", ":">> \o props[1].json
       \o (IF Len(props) > 1 THEN <<",">> ELSE <<>>)
       \o JsonMembers(Tail(props))

\* JSON.stringify(value) of an object (no character of the values needs escaping)
JsonOf(v) == <<"{">> \o JsonMembers(v.props) \o <<"}">>

\* ---- a context: the entries [key, value] of a Map or of an object, in insertion order
HasKey(ctx, key) == \E i \in 1..Len(ctx) : ctx[i].key = key
\* context.get(key) / variables[key]
Lookup(ctx, key) ==
  IF HasKey(ctx, key)
  THEN ctx[CHOOSE i \in 1..Len(ctx) : ctx[i].key = key].value
  ELSE TUndefined

\* !value
IsFalsy(v) == v.kind = "undefined" \/ (v.kind = "string" /\ v.chars = <<>>)

\* ================================================= template resolution on text

\* the match of /\{\{([^}]+)\}\}/ that starts at position i of s: the position of
\* its last character, 0 when there is no match at i
MatchEnd(s, i) ==
  IF ~IsPrefixAt(s, <<"{", "{">>, i) THEN 0
  ELSE LET closing == { j \in (i + 2)..Len(s) : s[j] = "}" }
       IN IF closing = {} THEN 0
          ELSE IF /\ Min(closing) > i + 2
                  /\ Min(closing) + 1 <= Len(s)
                  /\ s[Min(closing) + 1] = "}"
               THEN Min(closing) + 1
               ELSE 0

\* the nested lookup of getVariable: current = variables, then one step per part
NestedLookup(parts, vs) ==
  IF ~HasKey(vs, parts[1]) THEN TUndefined
  ELSE IF Len(parts) = 1 THEN Lookup(vs, parts[1])
  ELSE IF /\ Lookup(vs, parts[1]).kind = "object"
          /\ HasProp(Lookup(vs, parts[1]), parts[2])
          /\ Len(parts) = 2
       THEN TStr(Prop(Lookup(vs, parts[1]), parts[2]))
       ELSE TUndefined

\* WorkflowExecutor.getVariable(path) of /api/workflows/nodes
WorkflowExecutor_getVariableText(path, vs) ==
  IF HasKey(vs, path) THEN Lookup(vs, path) ELSE NestedLookup(split(path), vs)

\* getVariable(path) of utils/workflow-context.ts: the nested lookup only
WorkflowContext_getVariable(path, vs) == NestedLookup(split(path), vs)

\* the replace callback of processTemplate (/api/workflows/execute)
processTemplate_replacer(match, variablePath, context) ==
  LET trimmedPath == trim(variablePath)
      outputKeys == { i \in 1..Len(context) :
                        /\ includes(context[i].key, DotOutput)
                        /\ context[i].value.kind = "string" }
      inputValue == Lookup(context, KeyInput)
      dotted == includes(trimmedPath, <<".">>)
      nodeId == split2(trimmedPath)[1]
      property == split2(trimmedPath)[2]
      nodeResult == Lookup(context, nodeId)
      value == Lookup(context, trimmedPath)
  IN IF includes(trimmedPath, LegacyId) /\ outputKeys # {}
     THEN StringOf(context[Min(outputKeys)].value)
     ELSE IF includes(trimmedPath, LegacyId) /\ inputValue.kind # "undefined"
     THEN StringOf(inputValue)
     ELSE IF /\ dotted /\ ~IsFalsy(nodeResult) /\ nodeResult.kind = "object"
             /\ HasProp(nodeResult, property)
     THEN Prop(nodeResult, property)
     ELSE IF dotted /\ property = KeyOutput /\ ~IsFalsy(nodeResult)
     THEN (IF nodeResult.kind = "string" THEN nodeResult.chars ELSE JsonOf(nodeResult))
     ELSE IF value.kind # "undefined"
     THEN (IF value.kind = "string" THEN value.chars ELSE JsonOf(value))
     ELSE match

\* the replace callback of WorkflowExecutor.processTemplate (/api/workflows/nodes)
WorkflowExecutor_replacer(match, variablePath, vs) ==
  LET trimmedPath == trim(variablePath)
      correctedPath ==
        IF includes(trimmedPath, DotData) THEN <<"1">> \o DotOutput
        ELSE replace(trimmedPath, LegacyId, <<"1">>)
      nodeNumber == split(replace(trimmedPath, NodePrefix, <<>>))[1]
      property ==
        IF includes(trimmedPath, <<".">>) THEN split(trimmedPath)[2] ELSE KeyOutput
      actualPath == nodeNumber \o <<".">> \o property
      path == IF includes(trimmedPath, LegacyId) THEN correctedPath
              ELSE IF startsWith(trimmedPath, NodePrefix) THEN actualPath
              ELSE trimmedPath
      value == WorkflowExecutor_getVariableText(path, vs)
  IN IF value.kind # "undefined" THEN StringOf(value) ELSE match

\* the replace callback of processTemplate in utils/workflow-context.ts; replace()
\* turns the returned value into a string
WorkflowContext_replacer(match, variablePath, vs) ==
  LET value == WorkflowContext_getVariable(trim(variablePath), vs)
  IN IF value.kind # "undefined" THEN StringOf(value) ELSE match

FnExecute == "processTemplate"
FnNodes == "WorkflowExecutor.processTemplate"
FnContext == "workflow-context.processTemplate"
TemplateFns == {FnExecute, FnNodes, FnContext}

\* a callback that blanks every placeholder
ReplacerBlanking(fn, match, variablePath, ctx) == <<>>

\* the callback handed to replace() by resolver fn
Replacer(fn, match, variablePath, ctx) ==
  CASE fn = FnExecute -> processTemplate_replacer(match, variablePath, ctx)
    [] fn = FnNodes -> WorkflowExecutor_replacer(match, variablePath, ctx)
    [] OTHER -> WorkflowContext_replacer(match, variablePath, ctx)

\* a replace that scans the substituted text again
RECURSIVE ReplaceAllRescanning(_, _, _, _)
ReplaceAllRescanning(fn, s, i, ctx) ==
  IF i > Len(s) THEN <<>>
  ELSE IF MatchEnd(s, i) = 0 THEN <<s[i]>> \o ReplaceAllRescanning(fn, s, i + 1, ctx)
  ELSE LET by == Replacer(fn, SubSeq(s, i, MatchEnd(s, i)),
                          SubSeq(s, i + 2, MatchEnd(s, i) - 2), ctx)
           rest == SubSeq(s, MatchEnd(s, i) + 1, Len(s))
       IN IF by = SubSeq(s, i, MatchEnd(s, i))
          THEN by \o ReplaceAllRescanning(fn, rest, 1, ctx)
          ELSE ReplaceAllRescanning(fn, by \o rest, 1, ctx)

\* template.replace(/\{\{([^}]+)\}\}/g, callback) from position i on: one pass
\* from left to right, the text produced by the callback is not scanned again
RECURSIVE ReplaceAll(_, _, _, _)
ReplaceAll(fn, s, i, ctx) ==
  IF i > Len(s) THEN <<>>
  ELSE IF MatchEnd(s, i) = 0 THEN <<s[i]>> \o ReplaceAll(fn, s, i + 1, ctx)
  ELSE Replacer(fn, SubSeq(s, i, MatchEnd(s, i)),
                SubSeq(s, i + 2, MatchEnd(s, i) - 2), ctx)
       \o ReplaceAll(fn, s, MatchEnd(s, i) + 1, ctx)

\* the three resolvers, on text
processTemplateText(template, context) == ReplaceAll(FnExecute, template, 1, context)
WorkflowExecutor_processTemplateText(template, vs) == ReplaceAll(FnNodes, template, 1, vs)
WorkflowContext_processTemplate(template, vs) == ReplaceAll(FnContext, template, 1, vs)

\* ------------------------------------------------------------------ specification
Engines == {"execute", "nodes"}

Init ==
  /\ engine \in Engines
  /\ nodes \in NodeLists
  /\ edges \in EdgeLists(nodes)
  /\ pc = "request"
  /\ strategy = "none"
  /\ applied = {}
  /\ startNode = 0
  /\ stack = <<>>
  /\ rootIdx = 1
  /\ visited = {}
  /\ executed = {}
  /\ executing = {}
  /\ results = EmptyMap
  /\ variables = EmptyMap
  /\ execOrder = <<>>
  /\ failedAt = <<>>
  /\ followed = <<>>
  /\ received = EmptyMap
  /\ observed = EmptyMap
  /\ expected = EmptyMap
  /\ effective = EmptyMap
  /\ response = NoResponse
  /\ gemini = "success"
  /\ supabase = [id \in NodeIds |-> "stored"]
  /\ node_executions = {}
  /\ call = NoCall
  /\ ret = NoRet

Next ==
  \/ ExecuteCurrentWorkflow
  \/ DepRoot
  \/ DepDependency
  \/ DepExecute
  \/ DepDone
  \/ BrExecute
  \/ BrFollow
  \/ BrReturn
  \/ BrDone
  \/ ExecuteWorkflow
  \/ ChainExecute
  \/ ChainFollow
  \/ ChainReturn
  \/ ChainDone

Spec == Init /\ [][Next]_vars

\* ---- runs whose collaborators may fail
\* The same requests and steps, over a smaller family of graphs, with every
\* answer of callGeminiAPI and of the insert into node_executions.

CollaboratorConfigs ==
  { Config("input", TLiteral("a"), "none"),
    Config("prompt", TNodeOutput(1), "none"),
    Config("custom", NoTemplate, "none"),
    Config("output", NoTemplate, "none"),
    Config("logic", TLiteral("a"), "equals") }

CollaboratorNodeLists ==
  UNION { { [i \in 1..n |-> MkNode(i, cs[i])] : cs \in [1..n -> CollaboratorConfigs] }
          : n \in 1..MaxNodes }

\* edge lists in ascending enumeration order whose edges lead to a later node
ForwardEdgeLists(ns) ==
  { es \in EdgeLists(ns) :
      /\ \A i \in 1..Len(es) : es[i].source < es[i].target
      /\ \A i, j \in 1..Len(es) : i < j => EdgeKey(es[i]) < EdgeKey(es[j]) }

GeminiOutcomes == {"success", "unsuccessful", "raises"}
InsertOutcomes == {"stored", "rejected", "raises"}

\* at most one collaborator fails in a run, the insert for at most one node
Collaborators(e) ==
  { c \in [gemini : GeminiOutcomes, supabase : [NodeIds -> InsertOutcomes]] :
      LET failing == { id \in NodeIds : c.supabase[id] # "stored" }
      IN /\ Cardinality(failing) <= 1
         /\ (c.gemini # "success" \/ e = "nodes") => failing = {} }

InitCollaborators ==
  /\ engine \in Engines
  /\ nodes \in CollaboratorNodeLists
  /\ edges \in ForwardEdgeLists(nodes)
  /\ \E c \in Collaborators(engine) : gemini = c.gemini /\ supabase = c.supabase
  /\ pc = "request"
  /\ strategy = "none"
  /\ applied = {}
  /\ startNode = 0
  /\ stack = <<>>
  /\ rootIdx = 1
  /\ visited = {}
  /\ executed = {}
  /\ executing = {}
  /\ results = EmptyMap
  /\ variables = EmptyMap
  /\ execOrder = <<>>
  /\ failedAt = <<>>
  /\ followed = <<>>
  /\ received = EmptyMap
  /\ observed = EmptyMap
  /\ expected = EmptyMap
  /\ effective = EmptyMap
  /\ response = NoResponse
  /\ node_executions = {}
  /\ call = NoCall
  /\ ret = NoRet

SpecCollaborators == InitCollaborators /\ [][Next]_vars

\* ---- runs to completion
\* Every await of a traversal is on a promise that settles (executeNode returns
\* or throws; the recursive call returns), and the event loop then resumes the
\* continuation: a step that can be taken is eventually taken.

TerminationConfigs ==
  { Config("input", TLiteral("a"), "none"),
    Config("output", NoTemplate, "none"),
    Config("logic", TLiteral("a"), "equals") }

TerminationNodeLists ==
  UNION { { [i \in 1..n |-> MkNode(i, cs[i])] : cs \in [1..n -> TerminationConfigs] }
          : n \in 1..MaxNodes }

\* edge lists in ascending enumeration order: every graph over the nodes, once
AscendingEdgeLists(ns) ==
  { es \in EdgeLists(ns) :
      \A i, j \in 1..Len(es) : i < j => EdgeKey(es[i]) < EdgeKey(es[j]) }

InitTermination ==
  /\ engine \in Engines
  /\ nodes \in TerminationNodeLists
  /\ edges \in AscendingEdgeLists(nodes)
  /\ pc = "request"
  /\ strategy = "none"
  /\ applied = {}
  /\ startNode = 0
  /\ stack = <<>>
  /\ rootIdx = 1
  /\ visited = {}
  /\ executed = {}
  /\ executing = {}
  /\ results = EmptyMap
  /\ variables = EmptyMap
  /\ execOrder = <<>>
  /\ failedAt = <<>>
  /\ followed = <<>>
  /\ received = EmptyMap
  /\ observed = EmptyMap
  /\ expected = EmptyMap
  /\ effective = EmptyMap
  /\ response = NoResponse
  /\ gemini = "success"
  /\ supabase = [id \in NodeIds |-> "stored"]
  /\ node_executions = {}
  /\ call = NoCall
  /\ ret = NoRet

SpecTermination == InitTermination /\ [][Next]_vars /\ WF_vars(Next)

\* ------------------------------------------------------------------ functions
\* Specifications that apply one function of the engine to arguments drawn from
\* bounded sets; no request is being served.
runVars == <<graphVars, gemini, supabase, node_executions>>

\* a function of the engine is being applied
Idle ==
  /\ engine = "none" /\ nodes = <<>> /\ edges = <<>> /\ pc = "idle"
  /\ strategy = "none" /\ applied = {} /\ startNode = 0 /\ stack = <<>>
  /\ rootIdx = 1 /\ visited = {} /\ executed = {} /\ executing = {}
  /\ results = EmptyMap /\ variables = EmptyMap /\ execOrder = <<>>
  /\ failedAt = <<>> /\ followed = <<>> /\ received = EmptyMap
  /\ observed = EmptyMap /\ expected = EmptyMap /\ effective = EmptyMap
  /\ response = NoResponse /\ gemini = "success"
  /\ supabase = [id \in NodeIds |-> "stored"] /\ node_executions = {}

\* ---- template resolution
MaxEntries == 2

\* "{{" + path + "}}"
Token(path) == <<"{", "{">> \o path \o <<"}", "}">>

\* the paths written between the braces
Paths ==
  { <<>>, <<"a">>, <<"b">>, <<"a", ".", "b">>, <<" ", "a", " ">>, <<"1">>,
    <<"1">> \o DotOutput, KeyInput,
    NodePrefix \o <<"1">>, NodePrefix \o <<"1">> \o DotOutput,
    LegacyId, LegacyId \o DotOutput, LegacyId \o DotData }

\* the keys a context may hold, in the order in which they are inserted
ContextKeys ==
  << <<"a">>, <<"b">>, <<"a", ".", "b">>, <<"1">>,
     <<"1">> \o DotOutput, KeyInput, NodePrefix \o <<"1">> \o DotOutput,
     LegacyId \o DotOutput >>

\* the values a context may hold: a string, a string that is itself a placeholder,
\* and an object
ContextValues ==
  { TStr(<<"v">>), TStr(Token(<<"b">>)),
    TObj(<<PStr(<<"b">>, <<"w">>), PStr(KeyOutput, <<"o">>)>>) }

\* contexts of at most MaxEntries entries
Contexts ==
  UNION { { [i \in 1..n |-> [key |-> ContextKeys[ks[i]], value |-> vs[i]]] :
              ks \in { f \in [1..n -> 1..Len(ContextKeys)] :
                         \A i, j \in 1..n : i < j => f[i] < f[j] },
              vs \in [1..n -> ContextValues] }
          : n \in 0..MaxEntries }

\* text around the placeholder
Affixes == { <<>>, <<"x">> }

InitTemplate ==
  /\ Idle
  /\ call \in { [fn |-> fn, path |-> path, affix |-> affix,
                 template |-> affix \o Token(path) \o affix, context |-> ctx] :
                  fn \in TemplateFns, path \in Paths, affix \in Affixes,
                  ctx \in Contexts }
  /\ ret = NoRet

\* processTemplate(template) against the context
Resolve ==
  /\ call.fn \in TemplateFns /\ ~ret.done
  /\ ret' = [done |-> TRUE, passes |-> 1,
             first |-> ReplaceAll(call.fn, call.template, 1, call.context),
             value |-> ReplaceAll(call.fn, call.template, 1, call.context)]
  /\ UNCHANGED <<call, runVars>>

\* processTemplate applied to the text the first call returned
ResolveAgain ==
  /\ call.fn \in TemplateFns /\ ret.done /\ ret.passes = 1
  /\ ret' = [ret EXCEPT !.passes = 2,
                        !.value = ReplaceAll(call.fn, ret.first, 1, call.context)]
  /\ UNCHANGED <<call, runVars>>

NextTemplate == Resolve \/ ResolveAgain

SpecTemplate == InitTemplate /\ [][NextTemplate]_vars

\* ---- the condition evaluators, applied to one pair of operands

\* evaluateCondition of utils/workflow-context.ts
WorkflowContext_evaluateCondition(value, compareValue, operator) ==
  CASE operator = "equals" -> value = compareValue
    [] operator = "notEquals" -> value # compareValue
    [] operator = "greaterThan" -> NumberLess(Number(compareValue), Number(value))
    [] operator = "lessThan" -> NumberLess(Number(value), Number(compareValue))
    [] operator = "greaterThanOrEqual" ->
         NumberLessOrEqual(Number(compareValue), Number(value))
    [] operator = "lessThanOrEqual" ->
         NumberLessOrEqual(Number(value), Number(compareValue))
    [] operator = "contains" -> includes(value, compareValue)
    [] OTHER -> FALSE

FnEvalExecute == "evaluateCondition"
FnEvalNodes == "WorkflowExecutor.evaluateCondition"
FnEvalContext == "workflow-context.evaluateCondition"
ConditionFns == {FnEvalExecute, FnEvalNodes, FnEvalContext}

Evaluate(fn, value, compareValue, operator) ==
  CASE fn = FnEvalExecute -> evaluateCondition(value, compareValue, operator)
    [] fn = FnEvalNodes -> WorkflowExecutor_evaluateCondition(value, compareValue, operator)
    [] fn = FnEvalContext -> WorkflowContext_evaluateCondition(value, compareValue, operator)

\* the longest text given as the value of a condition
MaxLen == 3

Alphabet == {"0", "1", "5", "a", " ", "."}
Texts == UNION { [1..n -> Alphabet] : n \in 0..MaxLen }
CompareTexts ==
  { <<>>, <<"5">>, <<"1", ".", "5">>, <<"-", "1">>, <<"a">>, <<" ", "5", " ">> }

NumericOperators == {"greaterThan", "lessThan", "greaterThanOrEqual", "lessThanOrEqual"}
SupportedOperators == {"equals", "notEquals", "contains"} \cup NumericOperators
Operators == SupportedOperators \cup {"", "Equals", "startsWith"}

InitCondition ==
  /\ Idle
  /\ call \in { [fn |-> fn, value |-> v, compareValue |-> c, operator |-> op] :
                  fn \in ConditionFns, v \in Texts, c \in CompareTexts,
                  op \in Operators }
  /\ ret = NoRet

\* evaluateCondition(value, compareValue, operator): no case of the switch
\* throws on text operands
EvaluateCondition ==
  /\ call.fn \in ConditionFns /\ ~ret.done
  /\ ret' = [done |-> TRUE, raised |-> FALSE,
             value |-> Evaluate(call.fn, call.value, call.compareValue, call.operator)]
  /\ UNCHANGED <<call, runVars>>

NextCondition == EvaluateCondition

SpecCondition == InitCondition /\ [][NextCondition]_vars

\* ---- the node actions on text, and the two scenario graphs
\* Scenario A: input 1 -> output 3.  Scenario B: input 1 -> logic 2, whose "true"
\* edge leads to output 3 and whose "false" edge leads to output 4.

\* a || b
Or(a, b) == IF IsFalsy(a) THEN b ELSE a

\* boolean values as text
BoolText(b) == IF b THEN <<"t", "r", "u", "e">> ELSE <<"f", "a", "l", "s", "e">>

\* new Date().toISOString()
Timestamp == <<"2", "0", "2", "6", "-", "0", "1", "-", "0", "1", "T", "0", "0", ":", "0", "0", ":", "0", "0", ".", "0", "0", "0", "Z">>

\* String(value) of an object
ObjectText == <<"[", "o", "b", "j", "e", "c", "t", " ", "O", "b", "j", "e", "c", "t", "]">>

\* the inputData of the request: inputData || {}
RequestInput == [chars |-> ObjectText, json |-> <<"{", "}">>]

InputId == <<"1">>
LogicId == <<"2">>
Output1Id == <<"3">>
Output2Id == <<"4">>

\* map.set(key, value) / object[key] = value on a list of entries
SetEntry(ctx, key, value) ==
  IF HasKey(ctx, key)
  THEN [i \in 1..Len(ctx) |-> IF ctx[i].key = key THEN [key |-> key, value |-> value]
                                ELSE ctx[i]]
  ELSE Append(ctx, [key |-> key, value |-> value])

\* WorkflowExecutor.setNodeOutput(nodeId, output) on the entries of context.variables
setNodeOutputText(vs, nodeId, output) ==
  SetEntry(SetEntry(vs, nodeId \o DotOutput, output), KeyInput, output)

\* case 'input' of WorkflowExecutor.executeNode
WorkflowExecutor_input(config) ==
  LET inputType == Or(config.inputType, TStr(<<"t", "e", "x", "t">>))
  IN CASE inputType = TStr(<<"t", "e", "x", "t">>) ->
            Or(config.textValue, Or(config.data, Or(config.initialValue,
               Or(config.description, TStr(<<"W", "o", "r", "k", "f", "l", "o", "w", " ", "s", "t", "a", "r", "t", "e", "d">>)))))
       [] inputType = TStr(<<"f", "i", "l", "e">>) ->
            Or(config.processedText, Or(config.data,
               Or(config.description, TStr(<<"N", "o", " ", "f", "i", "l", "e", " ", "u", "p", "l", "o", "a", "d", "e", "d">>))))
       [] OTHER ->
            Or(config.processedText, Or(config.data, Or(config.textValue,
               Or(config.initialValue, Or(config.description,
                  TStr(<<"W", "o", "r", "k", "f", "l", "o", "w", " ", "s", "t", "a", "r", "t", "e", "d">>))))))

\* case "input" of executeNode, for a node without incoming edge: the
\* configuration of the node is not read
executeNode_input(config) ==
  TObj(<<PRaw(<<"d", "a", "t", "a">>, RequestInput.chars, RequestInput.json),
         PStr(<<"m", "e", "s", "s", "a", "g", "e">>, <<"I", "n", "i", "t", "i", "a", "l", " ", "i", "n", "p", "u", "t", " ", "r", "e", "c", "e", "i", "v", "e", "d">>),
         PRaw(<<"h", "a", "s", "I", "n", "c", "o", "m", "i", "n", "g", "C", "o", "n", "n", "e", "c", "t", "i", "o", "n">>, BoolText(FALSE), BoolText(FALSE)),
         PStr(<<"t", "i", "m", "e", "s", "t", "a", "m", "p">>, Timestamp)>>)

\* const currentInput = this.context.variables['input'] || 'No input yet'
currentInputText(vs) == Or(Lookup(vs, KeyInput), TStr(<<"N", "o", " ", "i", "n", "p", "u", "t", " ", "y", "e", "t">>))

\* case 'output' of WorkflowExecutor.executeNode, format 'text'
WorkflowExecutor_outputText(vs) ==
  TObj(<<PStr(<<"f", "o", "r", "m", "a", "t">>, <<"t", "e", "x", "t">>),
         PStr(<<"d", "a", "t", "a">>, StringOf(currentInputText(vs))),
         PStr(<<"t", "i", "m", "e", "s", "t", "a", "m", "p">>, Timestamp),
         PStr(<<"p", "r", "e", "v", "i", "e", "w">>, StringOf(currentInputText(vs)))>>)

\* Object.fromEntries(previousResults): every stored result is an object
allResults(context) ==
  TObj([i \in 1..Len(context) |->
          PRaw(context[i].key, ObjectText, JsonOf(context[i].value))])

\* case "output" of executeNode, for a node with one incoming edge from the node
\* whose result is inputResult
executeNode_output(format, inputResult, context) ==
  TObj(<<PRaw(<<"f", "i", "n", "a", "l", "_", "o", "u", "t", "p", "u", "t">>, ObjectText, JsonOf(inputResult)),
         PRaw(<<"a", "l", "l", "_", "r", "e", "s", "u", "l", "t", "s">>, ObjectText, JsonOf(allResults(context))),
         PStr(<<"f", "o", "r", "m", "a", "t">>, format),
         PStr(<<"t", "i", "m", "e", "s", "t", "a", "m", "p">>, Timestamp)>>)

\* the field of an object, undefined when it has none
Field(v, key) == IF HasProp(v, key) THEN TStr(Prop(v, key)) ELSE TUndefined

\* the name of an operator as text
OperatorText(operator) ==
  CASE operator = "equals" -> <<"e", "q", "u", "a", "l", "s">>
    [] operator = "notEquals" -> <<"n", "o", "t", "E", "q", "u", "a", "l", "s">>
    [] operator = "greaterThan" -> <<"g", "r", "e", "a", "t", "e", "r", "T", "h", "a", "n">>
    [] operator = "lessThan" -> <<"l", "e", "s", "s", "T", "h", "a", "n">>
    [] operator = "greaterThanOrEqual" -> <<"g", "r", "e", "a", "t", "e", "r", "T", "h", "a", "n", "O", "r", "E", "q", "u", "a", "l">>
    [] operator = "lessThanOrEqual" -> <<"l", "e", "s", "s", "T", "h", "a", "n", "O", "r", "E", "q", "u", "a", "l">>
    [] operator = "contains" -> <<"c", "o", "n", "t", "a", "i", "n", "s">>

\* the output object of case 'logic' of WorkflowExecutor.executeNode
WorkflowExecutor_logicOutput(processedCondition, compareValue, operator, result) ==
  [result |-> result,
   output |-> TObj(<<PStr(<<"c", "o", "n", "d", "i", "t", "i", "o", "n">>, processedCondition),
                     PRaw(<<"r", "e", "s", "u", "l", "t">>, BoolText(result), BoolText(result)),
                     PStr(<<"c", "o", "m", "p", "a", "r", "e", "V", "a", "l", "u", "e">>, compareValue),
                     PStr(<<"o", "p", "e", "r", "a", "t", "o", "r">>, OperatorText(operator))>>)]

\* case 'logic' of WorkflowExecutor.executeNode, from the processed condition on
WorkflowExecutor_logicEvaluated(processedCondition, compareValue, operator) ==
  WorkflowExecutor_logicOutput(
    processedCondition, compareValue, operator,
    WorkflowExecutor_evaluateCondition(processedCondition, compareValue, operator))

\* case 'logic' of WorkflowExecutor.executeNode
WorkflowExecutor_logic(config, vs) ==
  WorkflowExecutor_logicEvaluated(
    WorkflowExecutor_processTemplateText(
      Or(config.condition, TStr(Token(KeyInput))).chars, vs),
    Or(config.compareValue, TStr(<<>>)).chars,
    IF config.operator = "" THEN "equals" ELSE config.operator)

\* the output object of case "logic" of executeNode
executeNode_logicOutput(processedCondition, compareValue, operator, conditionResult, inputData) ==
  [result |-> conditionResult,
   output |-> TObj(<<PStr(<<"c", "o", "n", "d", "i", "t", "i", "o", "n">>, processedCondition),
                     PStr(<<"c", "o", "m", "p", "a", "r", "e", "V", "a", "l", "u", "e">>, compareValue),
                     PStr(<<"o", "p", "e", "r", "a", "t", "o", "r">>, OperatorText(operator)),
                     PRaw(<<"r", "e", "s", "u", "l", "t">>, BoolText(conditionResult), BoolText(conditionResult)),
                     PStr(<<"b", "r", "a", "n", "c", "h">>, BoolText(conditionResult)),
                     PStr(<<"n", "e", "x", "t", "P", "a", "t", "h">>, BoolText(conditionResult)),
                     PRaw(<<"i", "n", "p", "u", "t", "_", "d", "a", "t", "a">>, ObjectText, JsonOf(inputData)),
                     PStr(<<"t", "i", "m", "e", "s", "t", "a", "m", "p">>, Timestamp)>>)]

\* case "logic" of executeNode, from the processed condition on
executeNode_logicEvaluated(processedCondition, compareValue, operator, inputData) ==
  executeNode_logicOutput(
    processedCondition, compareValue, operator,
    evaluateCondition(processedCondition, compareValue, operator), inputData)

\* case "logic" of executeNode, for a node with one incoming edge from the input node
executeNode_logic(config, context) ==
  executeNode_logicEvaluated(
    processTemplateText(Or(config.condition, TStr(<<"t", "r", "u", "e">>)).chars, context),
    Or(config.compareValue, TStr(<<"t", "r", "u", "e">>)).chars,
    IF config.operator = "" THEN "equals" ELSE config.operator,
    Lookup(context, InputId))

\* the values a field of a node configuration takes
Unset == TUndefined
ScenarioTexts == { <<"1", "0">>, <<"5">>, <<"h", "e", "l", "l", "o">>, <<"a", "b", "c">> }
ScenarioCompareTexts == { <<"5">>, <<"1", "0">>, <<"h", "e", "l", "l", "o">>, <<>> }

InputConfig(inputType, textValue, processedText, data, initialValue, description) ==
  [inputType |-> inputType, textValue |-> textValue, processedText |-> processedText,
   data |-> data, initialValue |-> initialValue, description |-> description]

\* configurations of an input node: every field unset, empty, or set to a text
\* that names the field
InputConfigs ==
  { InputConfig(ty, tv, pt, da, iv, de) :
      ty \in {Unset, TStr(<<"t", "e", "x", "t">>), TStr(<<"f", "i", "l", "e">>), TStr(<<"l", "e", "g", "a", "c", "y">>)},
      tv \in {Unset, TStr(<<>>), TStr(<<"t">>)},
      pt \in {Unset, TStr(<<>>), TStr(<<"p">>)},
      da \in {Unset, TStr(<<"d">>)},
      iv \in {Unset, TStr(<<"i">>)},
      de \in {Unset, TStr(<<"s">>)} }

\* input(textValue: v)
TextInput(v) == InputConfig(TStr(<<"t", "e", "x", "t">>), TStr(v), Unset, Unset, Unset, Unset)

LogicConfig(condition, compareValue, operator) ==
  [condition |-> condition, compareValue |-> compareValue, operator |-> operator]

FnScenario == "scenario"

ScenarioCalls ==
  { [fn |-> FnScenario, engine |-> e, scenario |-> "input", input |-> c,
     logic |-> LogicConfig(Unset, Unset, "")] : e \in Engines, c \in InputConfigs }
  \cup
  { [fn |-> FnScenario, engine |-> e, scenario |-> "A", input |-> TextInput(v),
     logic |-> LogicConfig(Unset, Unset, "")] : e \in Engines, v \in ScenarioTexts }
  \cup
  { [fn |-> FnScenario, engine |-> e, scenario |-> "B", input |-> TextInput(v),
     logic |-> LogicConfig(TStr(Token(InputId \o DotOutput)), TStr(c), op)] :
       e \in Engines, v \in ScenarioTexts, c \in ScenarioCompareTexts,
       op \in SupportedOperators \cup {""} }

InitScenario ==
  /\ Idle
  /\ call \in ScenarioCalls
  /\ ret = NoRet

\* the record of a run before its first node
NotStarted == [done |-> FALSE]

\* the start node, an input node, is executed and its output stored in the
\* context the run was given
AfterInput(c, context) ==
  LET output == IF c.engine = "nodes" THEN WorkflowExecutor_input(c.input)
                ELSE executeNode_input(c.input)
  IN [done |-> TRUE,
      stage |-> CASE c.scenario = "input" -> "end"
                  [] c.scenario = "A" -> "output"
                  [] c.scenario = "B" -> "logic",
      context |-> IF c.engine = "nodes"
                  THEN setNodeOutputText(context, InputId, output)
                  ELSE SetEntry(context, InputId, output),
      ran |-> <<InputId>>,
      input |-> output,
      recorded |-> "none", handle |-> "none",
      final |-> TUndefined]

\* the logic node is executed: its recorded result, and the label of the edge
\* the traversal takes next (in WorkflowExecutor the result of executeLogicNode,
\* evaluated after setNodeOutput)
AfterLogicNodes(r, logic, after, again) ==
  [r EXCEPT
     !.stage = "output",
     !.context = after,
     !.ran = Append(@, LogicId),
     !.recorded = BoolText(logic.result),
     !.handle = BoolText(again.result)]

\* executeWithBranching: executeNode and setNodeOutput, then executeLogicNode
AfterLogicStored(c, r, logic, after) ==
  AfterLogicNodes(r, logic, after, WorkflowExecutor_logic(c.logic, after))

\* executeBranchingWorkflow: executeNode, results.set, and the branch on the result
AfterLogicExecute(r, logic) ==
  [r EXCEPT
     !.stage = "output",
     !.context = SetEntry(@, LogicId, logic.output),
     !.ran = Append(@, LogicId),
     !.recorded = BoolText(logic.result),
     !.handle = BoolText(logic.result)]

AfterLogicRecorded(c, r, logic) ==
  AfterLogicStored(c, r, logic, setNodeOutputText(r.context, LogicId, logic.output))

AfterLogic(c, r) ==
  IF c.engine = "nodes"
  THEN AfterLogicRecorded(c, r, WorkflowExecutor_logic(c.logic, r.context))
  ELSE AfterLogicExecute(r, executeNode_logic(c.logic, r.context))

\* the output node the traversal reaches is executed: node 3 in scenario A, in
\* scenario B the target of the edge whose label is the handle
AfterOutput(c, r) ==
  LET target == IF c.scenario = "B" /\ r.handle = BoolText(FALSE)
                THEN Output2Id ELSE Output1Id
      output == IF c.engine = "nodes" THEN WorkflowExecutor_outputText(r.context)
                ELSE executeNode_output(<<"t", "e", "x", "t">>, Lookup(r.context, r.ran[Len(r.ran)]),
                                        r.context)
  IN [r EXCEPT
        !.stage = "end",
        !.context = IF c.engine = "nodes"
                    THEN setNodeOutputText(@, target, output)
                    ELSE SetEntry(@, target, output),
        !.ran = Append(@, target),
        !.final = output]

\* the next await point of a run: its next node has been executed
AfterStep(c, r, context) ==
  IF ~r.done THEN AfterInput(c, context)
  ELSE IF r.stage = "logic" THEN AfterLogic(c, [r EXCEPT !.context = context])
  ELSE AfterOutput(c, [r EXCEPT !.context = context])

ScenarioInput ==
  /\ call.fn = FnScenario /\ ~ret.done
  /\ ret' = AfterInput(call, <<>>)
  /\ UNCHANGED <<call, runVars>>

ScenarioLogic ==
  /\ call.fn = FnScenario /\ ret.done /\ ret.stage = "logic"
  /\ ret' = AfterLogic(call, ret)
  /\ UNCHANGED <<call, runVars>>

ScenarioOutput ==
  /\ call.fn = FnScenario /\ ret.done /\ ret.stage = "output"
  /\ ret' = AfterOutput(call, ret)
  /\ UNCHANGED <<call, runVars>>

NextScenario == ScenarioInput \/ ScenarioLogic \/ ScenarioOutput

SpecScenario == InitScenario /\ [][NextScenario]_vars

\* ---- runs served concurrently
\* Each request runs a scenario graph; the runs interleave at their await points,
\* one node at a time.

MaxRuns == 2
Runs == 1..MaxRuns

\* one context for all runs, kept at module level
ContextOfShared(run) == 1

\* the context a run works on: executeWorkflow constructs a WorkflowExecutor, and
\* executeCurrentWorkflow a result map, for every call
ContextOf(run) == run

FnConcurrent == "concurrent"

ConcurrentRequests ==
  { [engine |-> e, scenario |-> "A", input |-> TextInput(v),
     logic |-> LogicConfig(Unset, Unset, "")] :
       e \in Engines, v \in {<<"1", "0">>, <<"h", "e", "l", "l", "o">>} }
  \cup
  { [engine |-> e, scenario |-> "B", input |-> TextInput(v),
     logic |-> LogicConfig(TStr(Token(InputId \o DotOutput)), TStr(<<"5">>), op)] :
       e \in Engines, v \in {<<"1", "0">>, <<"h", "e", "l", "l", "o">>}, op \in {"greaterThan", "notEquals"} }

InitConcurrent ==
  /\ Idle
  /\ call \in { [fn |-> FnConcurrent, requests |-> rs] : rs \in [Runs -> ConcurrentRequests] }
  /\ ret = [done |-> FALSE,
            order |-> <<>>,
            runs |-> [run \in Runs |-> NotStarted],
            contexts |-> [run \in Runs |-> <<>>]]

\* the run has executed its last node
Ended(r) == r.done /\ r.stage = "end"

\* what the requests have done once run has taken a step that left it as after
Stepped(run, after) ==
  [done |-> Ended(after) /\ \A other \in Runs \ {run} : Ended(ret.runs[other]),
   order |-> Append(ret.order, run),
   runs |-> [ret.runs EXCEPT ![run] = after],
   contexts |-> [ret.contexts EXCEPT ![ContextOf(run)] = after.context]]

\* one run proceeds to its next await point; order lists the runs by their steps
RunStep ==
  /\ call.fn = FnConcurrent
  /\ \E run \in Runs :
       /\ ~Ended(ret.runs[run])
       /\ ret' = Stepped(run, AfterStep(call.requests[run], ret.runs[run],
                                        ret.contexts[ContextOf(run)]))
  /\ UNCHANGED <<call, runVars>>

NextConcurrent == RunStep

SpecConcurrent == InitConcurrent /\ [][NextConcurrent]_vars

\* ------------------------------------------------------------------ repeated resolution
\* Two calls of processTemplate with the same template, the second against the
\* context as the first call left it.

\* a resolver that stores what it resolved in the context, under the template
processTemplate_contextCaching(fn, template, context) ==
  SetEntry(context, template, TStr(ReplaceAll(fn, template, 1, context)))

\* the context when processTemplate has returned: the replacer callbacks only
\* read (context.get, context.entries, this.context.variables[path])
processTemplate_context(fn, template, context) == context

InitResolve ==
  /\ Idle
  /\ call \in { [fn |-> fn, template |-> affix \o Token(path) \o affix, context |-> ctx] :
                  fn \in TemplateFns, path \in Paths, affix \in Affixes,
                  ctx \in Contexts }
  /\ ret = [done |-> FALSE, calls |-> 0, context |-> call.context,
            first |-> <<>>, second |-> <<>>]

\* the first call of processTemplate(template)
ResolveFirst ==
  /\ call.fn \in TemplateFns /\ ret.calls = 0
  /\ ret' = [ret EXCEPT
               !.calls = 1,
               !.first = ReplaceAll(call.fn, call.template, 1, ret.context),
               !.context = processTemplate_context(call.fn, call.template, ret.context)]
  /\ UNCHANGED <<call, runVars>>

\* the second call of processTemplate(template)
ResolveSecond ==
  /\ call.fn \in TemplateFns /\ ret.calls = 1
  /\ ret' = [ret EXCEPT
               !.done = TRUE,
               !.calls = 2,
               !.second = ReplaceAll(call.fn, call.template, 1, ret.context),
               !.context = processTemplate_context(call.fn, call.template, ret.context)]
  /\ UNCHANGED <<call, runVars>>

NextResolve == ResolveFirst \/ ResolveSecond

SpecResolve == InitResolve /\ [][NextResolve]_vars

\* ------------------------------------------------------------------ node list order
\* executeDependencyAwareWorkflow run to its end on a node list and on a
\* permutation of it, the result objects carrying what they are built from.
FnPermutation == "executeDependencyAwareWorkflow"

\* the result object of executeNode: input nodes carry data, output nodes
\* final_output and all_results: Object.fromEntries(previousResults), any other
\* type input_data (the field data stands for the three)
executeNode_result(node, entries, previousResults) ==
  [kind |-> "object",
   type |-> node.type,
   data |-> effectiveInputData(entries),
   all_results |-> IF node.type = "output" THEN previousResults ELSE EmptyMap]

\* the traversal state of a new call of executeDependencyAwareWorkflow
NoneExecuted ==
  [executed |-> {}, executing |-> {}, results |-> EmptyMap, received |-> EmptyMap,
   order |-> <<>>]

\* executeNode and the bookkeeping after it
ExecutedNode(nodeId, ns, es, st) ==
  [executed |-> st.executed \cup {nodeId},
   executing |-> st.executing \ {nodeId},
   results |-> Put(st.results, nodeId,
                   executeNode_result(FindNode(ns, nodeId),
                                      getNodeInputData(nodeId, es, st.results),
                                      st.results)),
   received |-> Put(st.received, nodeId, getNodeInputData(nodeId, es, st.results)),
   order |-> Append(st.order, nodeId)]

\* a traversal that executes no dependency
SkipDependencies(nodeId, k, ns, es, st) == st

RECURSIVE executeNodeWithDependencies(_, _, _, _)
RECURSIVE ExecuteDependencies(_, _, _, _, _)

\* for (const dep of dependencies) await executeNodeWithDependencies(dep.source),
\* from the k-th incoming edge of nodeId on
ExecuteDependencies(nodeId, k, ns, es, st) ==
  IF k > Len(IncomingIdx(es, nodeId)) THEN st
  ELSE ExecuteDependencies(
         nodeId, k + 1, ns, es,
         executeNodeWithDependencies(es[IncomingIdx(es, nodeId)[k]].source, ns, es, st))

\* executeNodeWithDependencies(nodeId)
executeNodeWithDependencies(nodeId, ns, es, st) ==
  IF nodeId \in st.executed \cup st.executing THEN st
  ELSE IF ~HasNode(ns, nodeId) THEN st
  ELSE ExecutedNode(
         nodeId, ns, es,
         ExecuteDependencies(nodeId, 1, ns, es,
                             [st EXCEPT !.executing = @ \cup {nodeId}]))

\* for (const nodeId of allNodeIds) await executeNodeWithDependencies(nodeId)
RECURSIVE ExecuteAll(_, _, _, _)
ExecuteAll(k, ns, es, st) ==
  IF k > Len(ns) THEN st
  ELSE ExecuteAll(k + 1, ns, es, executeNodeWithDependencies(ns[k].id, ns, es, st))

executeDependencyAwareWorkflow(ns, es) == ExecuteAll(1, ns, es, NoneExecuted)

PermutationConfigs ==
  { Config("input", TLiteral("a"), "none"),
    Config("custom", NoTemplate, "none"),
    Config("output", NoTemplate, "none") }

PermutationNodeLists ==
  UNION { { [i \in 1..n |-> MkNode(i, cs[i])] : cs \in [1..n -> PermutationConfigs] }
          : n \in 1..MaxNodes }

\* the orders of a node list
Orders(ns) == { p \in [1..Len(ns) -> 1..Len(ns)] : \A i, j \in 1..Len(ns) : p[i] = p[j] => i = j }

Permuted(ns, p) == [i \in 1..Len(ns) |-> ns[p[i]]]

\* acyclic graphs: every edge leads to a node of a higher id
InitPermutation ==
  /\ Idle
  /\ \E ns \in PermutationNodeLists :
       \E es \in ForwardEdgeLists(ns) :
         \E p \in Orders(ns) :
           call = [fn |-> FnPermutation, nodes |-> ns, edges |-> es,
                   permuted |-> Permuted(ns, p)]
  /\ ret = [done |-> FALSE, runs |-> 0, first |-> NoneExecuted, second |-> NoneExecuted]

\* the run on the node list as given
RunGiven ==
  /\ call.fn = FnPermutation /\ ret.runs = 0
  /\ ret' = [ret EXCEPT !.runs = 1,
                        !.first = executeDependencyAwareWorkflow(call.nodes, call.edges)]
  /\ UNCHANGED <<call, runVars>>

\* the run on the permuted node list
RunPermuted ==
  /\ call.fn = FnPermutation /\ ret.runs = 1
  /\ ret' = [ret EXCEPT !.done = TRUE, !.runs = 2,
                        !.second = executeDependencyAwareWorkflow(call.permuted, call.edges)]
  /\ UNCHANGED <<call, runVars>>

NextPermutation == RunGiven \/ RunPermuted

SpecPermutation == InitPermutation /\ [][NextPermutation]_vars

\* ------------------------------------------------------------------ utils/workflow-context.ts
\* executeWorkflow(nodes, edges) of utils/workflow-context.ts: one pass over the
\* node list in list order, each node handled by the case of its type.
FnContextRun == "workflow-context.executeWorkflow"

\* the context of a new WorkflowExecutor
EmptyContext == [nodeOutputs |-> <<>>, variables |-> <<>>, globalData |-> <<>>]

\* WorkflowExecutor.setNodeOutput(nodeId, output) of utils/workflow-context.ts
WorkflowContext_setNodeOutput(context, nodeId, output) ==
  [nodeOutputs |-> SetEntry(context.nodeOutputs, nodeId, output),
   variables |-> SetEntry(context.variables, nodeId \o DotOutput, output),
   globalData |-> context.globalData]

InitialData == <<"I", "n", "i", "t", "i", "a", "l", " ", "d", "a", "t", "a">>
AIProcessed == <<"A", "I", " ", "p", "r", "o", "c", "e", "s", "s", "e", "d", ":", " ">>
EmptyArray == <<"[", "]">>

\* the types for which the switch of executeWorkflow has a case (of these the
\* model runs input, prompt and dataEntry)
ContextCases == {"input", "prompt", "dataEntry"}

\* the value the case of the node's type hands to setNodeOutput
WorkflowContext_output(node, context) ==
  CASE node.type = "input" -> Or(node.initialValue, TStr(InitialData))
    [] node.type = "prompt" ->
         TStr(AIProcessed \o WorkflowContext_processTemplate(node.prompt, context.variables))
    [] node.type = "dataEntry" ->
         TObj(<<PRaw(<<"f", "i", "l", "e", "s">>, <<>>, EmptyArray),
                PRaw(<<"d", "a", "t", "a">>, <<>>, EmptyArray),
                PRaw(<<"f", "i", "l", "e", "C", "o", "u", "n", "t">>, <<"0">>, <<"0">>)>>)

\* one iteration of nodes.forEach: a type without a case writes nothing
WorkflowContext_forEach(node, context) ==
  IF node.type \in ContextCases
  THEN WorkflowContext_setNodeOutput(context, node.id, WorkflowContext_output(node, context))
  ELSE context

ContextNode(type, initialValue, prompt) ==
  [type |-> type, initialValue |-> initialValue, prompt |-> prompt]

ContextConfigs ==
  { ContextNode("input", TStr(<<"a">>), <<>>),
    ContextNode("input", Unset, <<>>),
    ContextNode("prompt", Unset, Token(KeyInput)),
    ContextNode("prompt", Unset, Token(<<"1">> \o DotOutput)),
    ContextNode("dataEntry", Unset, <<>>),
    ContextNode("output", Unset, <<>>) }

\* node ids as text
IdText(i) == <<ToString(i)>>

ContextNodeLists ==
  UNION { { [i \in 1..n |-> [id |-> IdText(i), type |-> cs[i].type,
                              initialValue |-> cs[i].initialValue, prompt |-> cs[i].prompt]]
            : cs \in [1..n -> ContextConfigs] }
          : n \in 1..MaxNodes }

InitContext ==
  /\ Idle
  /\ call \in { [fn |-> FnContextRun, nodes |-> ns] : ns \in ContextNodeLists }
  /\ ret = [done |-> FALSE, index |-> 1, context |-> EmptyContext, ran |-> <<>>]

\* the state of the pass after the node at ret.index
AfterForEach(node) ==
  [done |-> ret.index = Len(call.nodes),
   index |-> ret.index + 1,
   context |-> WorkflowContext_forEach(node, ret.context),
   ran |-> Append(ret.ran, node.id)]

ForEachNode ==
  /\ call.fn = FnContextRun
  /\ ~ret.done
  /\ ret' = AfterForEach(call.nodes[ret.index])
  /\ UNCHANGED <<call, runVars>>

NextContext == ForEachNode

SpecContext == InitContext /\ [][NextContext]_vars

\* ================================================= store/nodesSlice.ts
\* The editor store: the nodes slice of the redux store and its reducers.  The
\* slice is persisted (persistReducer with whitelist ['nodes']), so a session
\* starts from whatever nodes, edges and selection an earlier session saved.
\* ret.state is the slice, ret.before the slice before the last dispatch, call
\* the last dispatched action.  selectedNodeId null is 0.

MaxDispatches == 2
StoreNodeIds == {1, 2}
PayloadIds == {1, 2, 3}
NullId == 0

WorkflowNode(id, position, config, result) ==
  [id |-> id, position |-> position,
   data |-> [label |-> "Start", config |-> config, result |-> result]]

WorkflowEdge(id, source, target) == [id |-> id, source |-> source, target |-> target]

initialState ==
  [nodes |-> <<WorkflowNode(1, 0, "a", "none")>>, edges |-> <<>>, selectedNodeId |-> NullId]

NodePayloads == { WorkflowNode(id, 0, "a", "none") : id \in StoreNodeIds }
EdgePayloads == { WorkflowEdge(1, 1, 2), WorkflowEdge(2, 2, 2), WorkflowEdge(3, 2, 1) }

\* state.nodes.findIndex(node => node.id === nodeId); no match (-1) is 0
findIndex(ns, nodeId) ==
  IF \E i \in 1..Len(ns) : ns[i].id = nodeId
  THEN CHOOSE i \in 1..Len(ns) : ns[i].id = nodeId /\ \A j \in 1..(i - 1) : ns[j].id # nodeId
  ELSE 0

nodesSlice_addNode(state, node) == [state EXCEPT !.nodes = Append(@, node)]

UpdatedConfig(state, nodeIndex, config) ==
  IF nodeIndex # 0 THEN [state EXCEPT !.nodes[nodeIndex].data.config = config] ELSE state

nodesSlice_updateNode(state, nodeId, config) ==
  UpdatedConfig(state, findIndex(state.nodes, nodeId), config)

\* a removal that filters the nodes only
removeNodeKeepingEdges(state, nodeId) ==
  [state EXCEPT !.nodes = SelectSeq(@, LAMBDA node : node.id # nodeId)]

nodesSlice_removeNode(state, nodeId) ==
  [state EXCEPT !.nodes = SelectSeq(@, LAMBDA node : node.id # nodeId),
                !.edges = SelectSeq(@, LAMBDA edge : edge.source # nodeId /\ edge.target # nodeId)]

nodesSlice_addEdge(state, edge) == [state EXCEPT !.edges = Append(@, edge)]

nodesSlice_removeEdge(state, edgeId) ==
  [state EXCEPT !.edges = SelectSeq(@, LAMBDA edge : edge.id # edgeId)]

nodesSlice_setSelectedNodeId(state, nodeId) == [state EXCEPT !.selectedNodeId = nodeId]

UpdatedPosition(state, nodeIndex, position) ==
  IF nodeIndex # 0 THEN [state EXCEPT !.nodes[nodeIndex].position = position] ELSE state

nodesSlice_updateNodePosition(state, nodeId, position) ==
  UpdatedPosition(state, findIndex(state.nodes, nodeId), position)

nodesSlice_clearWorkflow(state) ==
  [nodes |-> <<initialState.nodes[1]>>, edges |-> <<>>, selectedNodeId |-> NullId]

UpdatedResult(state, nodeIndex, result) ==
  IF nodeIndex # 0 THEN [state EXCEPT !.nodes[nodeIndex].data.result = result] ELSE state

nodesSlice_updateNodeExecutionResult(state, nodeId, result) ==
  UpdatedResult(state, findIndex(state.nodes, nodeId), result)

StoreNodeLists ==
  {<<>>} \cup { <<a>> : a \in NodePayloads } \cup { <<a, b>> : a \in NodePayloads, b \in NodePayloads }
StoreEdgeLists ==
  {<<>>} \cup { <<a>> : a \in EdgePayloads } \cup { <<a, b>> : a \in EdgePayloads, b \in EdgePayloads }

\* the slices a session starts from: initialState and the rehydrated ones
StoreStates ==
  {initialState} \cup
  { [nodes |-> ns, edges |-> es, selectedNodeId |-> sel] :
      ns \in StoreNodeLists, es \in StoreEdgeLists, sel \in {NullId} \cup PayloadIds }

InitStore ==
  /\ Idle
  /\ call = [fn |-> "persist/REHYDRATE"]
  /\ \E state \in StoreStates :
       ret = [state |-> state, before |-> state, dispatched |-> 0, unmatched |-> FALSE]

\* the action was dispatched and the reducer returned the slice `after`;
\* `unmatched`: the action named a node id that matches no node
Dispatched(action, after, unmatched) ==
  /\ call.fn # "none"
  /\ "state" \in DOMAIN ret
  /\ ret.dispatched < MaxDispatches
  /\ call' = action
  /\ ret' = [state |-> after, before |-> ret.state, dispatched |-> ret.dispatched + 1,
             unmatched |-> ret.unmatched \/ unmatched]
  /\ UNCHANGED runVars

AddNode ==
  \E node \in NodePayloads :
    Dispatched([fn |-> "addNode", node |-> node], nodesSlice_addNode(ret.state, node), FALSE)

UpdateNode ==
  \E nodeId \in PayloadIds :
    Dispatched([fn |-> "updateNode", nodeId |-> nodeId, config |-> "b"],
               nodesSlice_updateNode(ret.state, nodeId, "b"),
               findIndex(ret.state.nodes, nodeId) = 0)

RemoveNode ==
  \E nodeId \in PayloadIds :
    Dispatched([fn |-> "removeNode", nodeId |-> nodeId],
               nodesSlice_removeNode(ret.state, nodeId), FALSE)

AddEdge ==
  \E edge \in EdgePayloads :
    Dispatched([fn |-> "addEdge", edge |-> edge], nodesSlice_addEdge(ret.state, edge), FALSE)

RemoveEdge ==
  \E edgeId \in 1..3 :
    Dispatched([fn |-> "removeEdge", edgeId |-> edgeId],
               nodesSlice_removeEdge(ret.state, edgeId), FALSE)

SetSelectedNodeId ==
  \E nodeId \in {NullId} \cup PayloadIds :
    Dispatched([fn |-> "setSelectedNodeId", nodeId |-> nodeId],
               nodesSlice_setSelectedNodeId(ret.state, nodeId), FALSE)

UpdateNodePosition ==
  \E nodeId \in PayloadIds :
    Dispatched([fn |-> "updateNodePosition", nodeId |-> nodeId, position |-> 1],
               nodesSlice_updateNodePosition(ret.state, nodeId, 1),
               findIndex(ret.state.nodes, nodeId) = 0)

ClearWorkflow ==
  Dispatched([fn |-> "clearWorkflow"], nodesSlice_clearWorkflow(ret.state), FALSE)

UpdateNodeExecutionResult ==
  \E nodeId \in PayloadIds :
    Dispatched([fn |-> "updateNodeExecutionResult", nodeId |-> nodeId, result |-> "r"],
               nodesSlice_updateNodeExecutionResult(ret.state, nodeId, "r"),
               findIndex(ret.state.nodes, nodeId) = 0)

NextStore ==
  \/ AddNode
  \/ UpdateNode
  \/ RemoveNode
  \/ AddEdge
  \/ RemoveEdge
  \/ SetSelectedNodeId
  \/ UpdateNodePosition
  \/ ClearWorkflow
  \/ UpdateNodeExecutionResult

SpecStore == InitStore /\ [][NextStore]_vars

\* ================================================= hooks/useFileUpload.ts
\* One call of uploadFiles, step by step between its awaits, with the interval
\* timer it starts.  ret.progress and ret.isUploading are the hook's state;
\* call.closure is the `progress` value the callback closed over (the state of
\* the render that created it); ret.previous is ret.progress before the last
\* step and ret.inCall tells whether that step ran before the call returned.

MaxFiles == 2
FileNames == {"a.txt", "b.txt"}
FileSizes == {0, 1, 2}
maxFileSize == 1

UploadFile(name, size, allowed) == [name |-> name, size |-> size, allowed |-> allowed]
UploadFiles == { UploadFile(n, sz, al) : n \in FileNames, sz \in FileSizes, al \in BOOLEAN }
FileLists == UNION { [1..n -> UploadFiles] : n \in 0..MaxFiles }

\* validateFiles(files).length > 0: a file over the size limit, with an
\* extension outside allowedExtensions, or empty
HasValidationErrors(files) ==
  \E i \in 1..Len(files) :
    files[i].size > maxFileSize \/ ~files[i].allowed \/ files[i].size = 0

NoEntry == [k \in {} |-> 0]
EntryOf(prev, fileName) == IF fileName \in DOMAIN prev THEN prev[fileName] ELSE NoEntry

\* setProgress(prev => ({...prev, [fileName]: {...prev[fileName], ...updates, fileName}}))
updateProgress(prev, fileName, updates) ==
  Put(prev, fileName, [fileName |-> fileName] @@ updates @@ EntryOf(prev, fileName))

\* files.forEach(file => updateProgress(file.name, updates)), from the k-th file on
RECURSIVE UpdateEach(_, _, _, _)
UpdateEach(files, k, updates, prev) ==
  IF k > Len(files) THEN prev
  ELSE UpdateEach(files, k + 1, updates, updateProgress(prev, files[k].name, updates))

\* progress[file.name]?.progress || 10, read from the closed-over progress
currentProgress(closure, fileName) ==
  IF fileName \in DOMAIN closure /\ "progress" \in DOMAIN closure[fileName]
     /\ closure[fileName].progress # 0
  THEN closure[fileName].progress
  ELSE 10

TickUpdate(prev, fileName, current) ==
  IF current < 90
  THEN updateProgress(prev, fileName, [progress |-> Min({current + 20, 90})])
  ELSE prev

\* one run of the setInterval callback, from the k-th file on
RECURSIVE progressInterval(_, _, _, _)
progressInterval(files, k, closure, prev) ==
  IF k > Len(files) THEN prev
  ELSE progressInterval(files, k + 1, closure,
                        TickUpdate(prev, files[k].name, currentProgress(closure, files[k].name)))

\* result.files.forEach(fileResult => updateProgress(fileResult.fileName, ...)),
\* the route's results listing every received file under its own name
RECURSIVE UpdateResults(_, _, _, _)
UpdateResults(files, k, succeeded, prev) ==
  IF k > Len(files) THEN prev
  ELSE UpdateResults(files, k + 1, succeeded,
                     updateProgress(prev, files[k].name,
                                    [progress |-> 100,
                                     status |-> IF succeeded[k] THEN "success" ELSE "error"]))

Failed(files, prev) == UpdateEach(files, 1, [progress |-> 100, status |-> "error"], prev)

\* the entries earlier calls left behind
SettledEntries ==
  { [fileName |-> "a.txt", progress |-> 100, status |-> "success"],
    [fileName |-> "a.txt", progress |-> 30, status |-> "error"],
    [fileName |-> "b.txt", progress |-> 100, status |-> "error"] }
EarlierProgress ==
  { NoEntry } \cup { Put(NoEntry, e.fileName, e) : e \in SettledEntries }
    \cup { Put(Put(NoEntry, e.fileName, e), d.fileName, d) : e \in SettledEntries, d \in SettledEntries }

InitUpload ==
  /\ Idle
  /\ \E files \in FileLists :
       \E earlier \in EarlierProgress :
         /\ call = [fn |-> "uploadFiles", files |-> files, closure |-> earlier]
         /\ ret = [pc |-> "called", isUploading |-> FALSE, progress |-> earlier,
                   previous |-> earlier, interval |-> FALSE, inCall |-> FALSE,
                   sent |-> FALSE, returned |-> "none"]

\* files.length === 0 or validation errors: onError and return null
UploadRejected ==
  /\ call.fn = "uploadFiles" /\ ret.pc = "called"
  /\ Len(call.files) = 0 \/ HasValidationErrors(call.files)
  /\ ret' = [ret EXCEPT !.pc = "returned", !.returned = "null", !.inCall = TRUE,
                        !.previous = ret.progress]
  /\ UNCHANGED <<call, runVars>>

\* setIsUploading(true), the pending and uploading entries, fetch is called
UploadBegins ==
  /\ call.fn = "uploadFiles" /\ ret.pc = "called"
  /\ Len(call.files) > 0 /\ ~HasValidationErrors(call.files)
  /\ ret' = [ret EXCEPT
       !.pc = "fetching", !.isUploading = TRUE, !.sent = TRUE, !.inCall = TRUE,
       !.previous = UpdateEach(call.files, 1, [progress |-> 0, status |-> "pending"], ret.progress),
       !.progress = UpdateEach(call.files, 1, [progress |-> 10, status |-> "uploading"],
                      UpdateEach(call.files, 1, [progress |-> 0, status |-> "pending"], ret.progress))]
  /\ UNCHANGED <<call, runVars>>

\* fetch rejects: the catch block and the finally block
FetchRejects ==
  /\ call.fn = "uploadFiles" /\ ret.pc = "fetching"
  /\ ret' = [ret EXCEPT !.pc = "returned", !.returned = "null", !.isUploading = FALSE,
                        !.inCall = TRUE, !.previous = ret.progress,
                        !.progress = Failed(call.files, ret.progress)]
  /\ UNCHANGED <<call, runVars>>

\* fetch resolves: setInterval, response.json() is awaited
FetchResolves ==
  /\ call.fn = "uploadFiles" /\ ret.pc = "fetching"
  /\ ret' = [ret EXCEPT !.pc = "reading", !.interval = TRUE, !.inCall = TRUE,
                        !.previous = ret.progress]
  /\ UNCHANGED <<call, runVars>>

\* the interval callback runs
Tick ==
  /\ call.fn = "uploadFiles" /\ ret.interval
  /\ ret' = [ret EXCEPT !.inCall = (ret.pc # "returned"), !.previous = ret.progress,
                        !.progress = progressInterval(call.files, 1, call.closure, ret.progress)]
  /\ UNCHANGED <<call, runVars>>

\* response.json() resolves with an error body or a not-ok status
ResponseFailed ==
  /\ call.fn = "uploadFiles" /\ ret.pc = "reading"
  /\ ret' = [ret EXCEPT !.pc = "returned", !.returned = "null", !.isUploading = FALSE,
                        !.interval = FALSE, !.inCall = TRUE, !.previous = ret.progress,
                        !.progress = Failed(call.files, ret.progress)]
  /\ UNCHANGED <<call, runVars>>

\* response.json() resolves with the route's success body
ResponseSucceeded ==
  /\ call.fn = "uploadFiles" /\ ret.pc = "reading"
  /\ \E succeeded \in [1..Len(call.files) -> BOOLEAN] :
       ret' = [ret EXCEPT !.pc = "returned", !.returned = "result", !.isUploading = FALSE,
                          !.interval = FALSE, !.inCall = TRUE, !.previous = ret.progress,
                          !.progress = UpdateResults(call.files, 1, succeeded, ret.progress)]
  /\ UNCHANGED <<call, runVars>>

\* response.json() rejects (the body is not JSON, or the connection drops while
\* it is read): the catch block and the finally block; clearInterval is skipped
JsonRejects ==
  /\ call.fn = "uploadFiles" /\ ret.pc = "reading"
  /\ ret' = [ret EXCEPT !.pc = "returned", !.returned = "null", !.isUploading = FALSE,
                        !.inCall = TRUE, !.previous = ret.progress,
                        !.progress = Failed(call.files, ret.progress)]
  /\ UNCHANGED <<call, runVars>>

NextUpload ==
  \/ UploadRejected
  \/ UploadBegins
  \/ FetchRejects
  \/ FetchResolves
  \/ Tick
  \/ ResponseFailed
  \/ ResponseSucceeded
  \/ JsonRejects

SpecUpload == InitUpload /\ [][NextUpload]_vars

\* ------------------------------------------------------------------ claims
Count(seq, x) == Cardinality({ i \in 1..Len(seq) : seq[i] = x })
Executed(id) == \E i \in 1..Len(execOrder) : execOrder[i] = id
Pos(seq, x) == CHOOSE i \in 1..Len(seq) : seq[i] = x
ListedIds == { nodes[i].id : i \in 1..Len(nodes) }
EdgeSet == { edges[i] : i \in 1..Len(edges) }

\* the ids reachable from the set S along edges (S included)
RECURSIVE ReachFrom(_, _)
ReachFrom(S, es) ==
  LET T == S \cup { e.target : e \in { d \in Range(es) : d.source \in S } }
  IN IF T = S THEN S ELSE ReachFrom(T, es)

\* the edge lies on a cycle of the graph (a self-loop included)
OnCycle(e) == e.source \in ReachFrom({e.target}, edges)
Acyclic == \A e \in EdgeSet : ~OnCycle(e)
\* every edge joins two nodes of the node list
WellFormed == \A e \in EdgeSet : e.source \in ListedIds /\ e.target \in ListedIds

DependencyRunSucceeded ==
  /\ engine = "execute" /\ strategy = "dependency"
  /\ pc = "done" /\ response.success = "true"

\* C1: under the dependency-aware strategy, when the run completes without a node
\* raising, every node id of the node list has been executed exactly once and is a
\* key of the result map, whatever its number of incoming edges; the result map
\* has no other key.
C1_EveryNodeExecutedOnce ==
  DependencyRunSucceeded =>
    /\ \A id \in ListedIds : Count(execOrder, id) = 1 /\ id \in DOMAIN results
    /\ DOMAIN results = ListedIds

\* C1 witness: a completed dependency-aware run over three nodes, one of which has
\* two incoming edges.
C1_Witness ==
  /\ DependencyRunSucceeded
  /\ Len(nodes) = 3
  /\ \E id \in ListedIds : Len(IncomingIdx(edges, id)) >= 2
  /\ Len(execOrder) = 3

\* C2 (as stated): under the dependency-aware strategy, for every edge s -> t
\* between two distinct listed nodes, s has executed before t executes.
C2_OrderForEveryEdge ==
  (engine = "execute" /\ strategy = "dependency" /\ WellFormed) =>
    \A e \in EdgeSet :
      (Executed(e.target) /\ e.source # e.target) =>
        Executed(e.source) /\ Pos(execOrder, e.source) < Pos(execOrder, e.target)

\* C2 (amended): under the dependency-aware strategy, for every edge s -> t that
\* lies on no cycle and whose source is a listed node, s has executed and its
\* result is stored before t executes, and t receives that stored result for s.
C2_OrderForAcyclicEdges ==
  (engine = "execute" /\ strategy = "dependency") =>
    \A e \in EdgeSet :
      (Executed(e.target) /\ e.source \in ListedIds /\ ~OnCycle(e)) =>
        /\ Executed(e.source)
        /\ Pos(execOrder, e.source) < Pos(execOrder, e.target)
        /\ \A i \in 1..Len(received[e.target]) :
             received[e.target][i].source = e.source =>
               received[e.target][i].value = results[e.source]

\* C2 witness: an edge on no cycle whose source is listed after its target has
\* both endpoints executed.
C2_Witness ==
  /\ DependencyRunSucceeded
  /\ \E e \in EdgeSet :
       /\ ~OnCycle(e) /\ e.source \in ListedIds /\ e.target \in ListedIds
       /\ e.source > e.target
       /\ Executed(e.source) /\ Executed(e.target)

FollowedEdges == { edges[followed[i]] : i \in 1..Len(followed) }
Opposite(h) == IF h = "true" THEN "false" ELSE "true"
\* indices of the outgoing edges of id that carry label h, in list order
Labelled(id, h) ==
  { i \in 1..Len(edges) : edges[i].source = id /\ edges[i].sourceHandle = h }

C4_FollowedLabelAgreesWithRecorded ==
  strategy = "branching" =>
    \A e \in FollowedEdges :
      (TypeOf(nodes, e.source) = "logic" /\ e.source \in DOMAIN results) =>
        e.sourceHandle = HandleOf(results[e.source].result)

AnyLogicNode == \E i \in 1..Len(nodes) : nodes[i].type = "logic"
NoNodeOfType(t) == \A i \in 1..Len(nodes) : nodes[i].type # t
HasIncoming(id) == \E e \in EdgeSet : e.target = id

\* C5: in /api/workflows/execute the strategy is chosen once per run from the node
\* list alone: branching exactly when some node has type logic, dependency-aware
\* otherwise, and never both in one run.
C5_StrategyChosenByLogicNodes ==
  (engine = "execute" /\ pc # "request") =>
    /\ Cardinality(applied) <= 1
    /\ applied \subseteq {strategy}
    /\ AnyLogicNode => ("dependency" \notin applied /\ strategy # "dependency")
    /\ ~AnyLogicNode => (applied = {"dependency"} /\ strategy = "dependency")
    /\ (AnyLogicNode /\ response.error # ErrNoStart) =>
         (applied = {"branching"} /\ strategy = "branching")
    /\ \A id \in DOMAIN results :
         IF AnyLogicNode THEN id \in visited ELSE id \in executed

\* C5 witness: a finished run of the branching strategy on a node list whose first
\* node is not the logic node, with at least two nodes executed.
C5_Witness ==
  /\ engine = "execute" /\ pc = "done" /\ response.success = "true"
  /\ applied = {"branching"}
  /\ nodes[1].type # "logic"
  /\ Len(execOrder) >= 2

\* C6: the branching strategy's start node is the first node of type input; if
\* there is none, the first node of type dataEntry; if there is none, the first
\* node that is the target of no edge; if there is none, no start node exists.
C6_StartNodeByPriority ==
  (engine = "execute" /\ pc # "request" /\ AnyLogicNode) =>
    IF startNode = 0
    THEN /\ NoNodeOfType("input") /\ NoNodeOfType("dataEntry")
         /\ \A id \in ListedIds : HasIncoming(id)
    ELSE \E i \in 1..Len(nodes) :
           /\ nodes[i].id = startNode
           /\ \/ /\ nodes[i].type = "input"
                 /\ \A j \in 1..(i-1) : nodes[j].type # "input"
              \/ /\ NoNodeOfType("input")
                 /\ nodes[i].type = "dataEntry"
                 /\ \A j \in 1..(i-1) : nodes[j].type # "dataEntry"
              \/ /\ NoNodeOfType("input") /\ NoNodeOfType("dataEntry")
                 /\ ~HasIncoming(nodes[i].id)
                 /\ \A j \in 1..(i-1) : HasIncoming(nodes[j].id)

\* C6 witness: with no input and no dataEntry node, the start node is a node with
\* no incoming edge that is not the first of the list, and it has executed.
C6_Witness ==
  /\ engine = "execute" /\ strategy = "branching"
  /\ NoNodeOfType("input") /\ NoNodeOfType("dataEntry")
  /\ startNode # 0 /\ startNode # nodes[1].id
  /\ Executed(startNode)

\* the branching traversal found no start node
NoStartNodeFound ==
  /\ pc = "done" /\ startNode = 0
  /\ (engine = "nodes" \/ AnyLogicNode)

\* C7: when the branching strategy finds no start node, no node is executed, no
\* node output is produced and the run reports success:false with a message
\* saying that no starting node was found, in both engines.
C7_NoStartNodeIsFatal ==
  NoStartNodeFound =>
    /\ execOrder = <<>> /\ DOMAIN results = {}
    /\ response.success = "false"
    /\ ErrNoStart \in {response.error, response.details}
       \/ ErrNoInput \in {response.error, response.details}

\* C8: in /api/workflows/execute, under either strategy, once the action of a node
\* has raised no further node is executed (no step of the run remains enabled,
\* the failed node has no result) and the run reports success:false with the
\* error's message.
C8_RaiseAbortsRun ==
  (engine = "execute" /\ failedAt # <<>>) =>
    /\ Len(failedAt) = 1
    /\ failedAt[1] \notin DOMAIN results
    /\ pc = "done" /\ stack = <<>>
    /\ ~ENABLED Next
    /\ response.success = "false"
    /\ response.error = ErrNode

\* C8 witness: a node raised in the dependency-aware strategy after another node
\* had executed, while a third node was still to run.
C8_Witness ==
  /\ engine = "execute" /\ strategy = "dependency"
  /\ failedAt # <<>> /\ Len(execOrder) = 1 /\ Len(nodes) = 3
  /\ response.success = "false"

Predecessors(id) == { e.source : e \in { d \in EdgeSet : d.target = id } }
ExecutedBefore(id) == { execOrder[i] : i \in 1..(Pos(execOrder, id) - 1) }

C10_PredecessorCompletedFirst ==
  (engine = "execute" /\ strategy = "branching" /\ Acyclic /\ WellFormed) =>
    \A e \in EdgeSet :
      (Executed(e.source) /\ Executed(e.target)) =>
        /\ Pos(execOrder, e.source) < Pos(execOrder, e.target)
        /\ \A i \in 1..Len(received[e.target]) :
             received[e.target][i].source = e.source =>
               received[e.target][i].value = results[e.source]

\* the source of the i-th incoming edge of node id
SourceOf(id, i) == edges[IncomingIdx(edges, id)[i]].source
InDegree(id) == Len(IncomingIdx(edges, id))

\* C11: in /api/workflows/execute, on a graph without cycle whose edges join listed
\* nodes, a node with two or more incoming edges that is not the start node of the
\* traversal receives one combined map that has, for every incoming edge, the
\* positional key input_<index> and the key of the source's id, and that holds
\* under both keys the output of every source that executes in the run.
C11_CombinedMapHoldsEveryOutput ==
  (engine = "execute" /\ Acyclic /\ WellFormed) =>
    \A id \in DOMAIN effective :
      (InDegree(id) >= 2 /\ id # startNode) =>
        /\ effective[id].kind = "combined"
        /\ \A i \in 1..InDegree(id) :
             /\ InputKey(i - 1) \in DOMAIN effective[id].fields
             /\ ToString(SourceOf(id, i)) \in DOMAIN effective[id].fields
             /\ SourceOf(id, i) \in DOMAIN results =>
                  /\ effective[id].fields[InputKey(i - 1)] = results[SourceOf(id, i)]
                  /\ effective[id].fields[ToString(SourceOf(id, i))]
                       = results[SourceOf(id, i)]

\* C12 (as stated): in /api/workflows/execute, on a graph without cycle whose edges
\* join listed nodes, a node with exactly one incoming edge receives the output of
\* that predecessor as its effective input, and a node receives the run's initial
\* input only when it has no incoming edge.
C12_FallbackOnlyWithoutIncomingEdge ==
  (engine = "execute" /\ Acyclic /\ WellFormed) =>
    \A id \in DOMAIN effective :
      /\ InDegree(id) = 1 =>
           /\ SourceOf(id, 1) \in DOMAIN results
           /\ effective[id] = results[SourceOf(id, 1)]
      /\ effective[id] = InputData => InDegree(id) = 0

\* C12 (amended): in /api/workflows/execute a node with exactly one incoming edge
\* whose source executed before it receives that source's output itself as its
\* effective input; a node receives the run's initial input exactly when it has no
\* incoming edge or its only incoming edge comes from a node with no stored output.
C12_FallbackWithoutStoredInput ==
  engine = "execute" =>
    \A id \in DOMAIN effective :
      /\ (InDegree(id) = 1 /\ SourceOf(id, 1) \in ExecutedBefore(id)) =>
           effective[id] = results[SourceOf(id, 1)]
      /\ effective[id] = InputData <=>
           \/ InDegree(id) = 0
           \/ InDegree(id) = 1 /\ SourceOf(id, 1) \notin ExecutedBefore(id)

\* C12 witness: one node received the output of its only predecessor, and the start
\* node of the same run, which has one incoming edge, received the initial input.
C12_Witness ==
  /\ engine = "execute" /\ pc = "done" /\ response.success = "true"
  /\ \E id \in DOMAIN effective :
       /\ InDegree(id) = 1 /\ SourceOf(id, 1) \in ExecutedBefore(id)
       /\ effective[id] = results[SourceOf(id, 1)]
  /\ \E id \in DOMAIN effective :
       /\ InDegree(id) = 1 /\ effective[id] = InputData

\* the stringified form of a value: objects JSON-stringified, strings as they are
Stringified(v) == IF v.kind = "string" THEN v.chars ELSE JsonOf(v)

\* the call resolves "{{" + path + "}}" and has returned from its first pass
ResolvedToken ==
  call.fn \in TemplateFns /\ ret.done /\ ret.passes = 1 /\ call.affix = <<>>

\* C13: for every path that is an exact key of the context, each of the three
\* resolvers turns "{{" + path + "}}" into the stringified value stored under
\* that key, keys that contain a dot included.
C13_ExactKeyResolvesToStringified ==
  (ResolvedToken /\ HasKey(call.context, call.path)) =>
    ret.value = Stringified(Lookup(call.context, call.path))

\* the text of path after its first dot
AfterDot(path) == SubSeq(path, indexOf(path, <<".">>) + 1, Len(path))
BeforeDot(path) == SubSeq(path, 1, indexOf(path, <<".">>) - 1)

\* path is head.rest where head is a key of the context whose value is an object
\* with property rest, or rest is "output"
DotResolvable(path, ctx) ==
  /\ includes(path, <<".">>)
  /\ HasKey(ctx, BeforeDot(path))
  /\ \/ /\ Lookup(ctx, BeforeDot(path)).kind = "object"
        /\ HasProp(Lookup(ctx, BeforeDot(path)), AfterDot(path))
     \/ AfterDot(path) = KeyOutput

Unresolvable(path, ctx) == ~HasKey(ctx, path) /\ ~DotResolvable(path, ctx)

\* a path is the trimmed text between the braces
Trimmed(path) == trim(path) = path

Rewritten(path) == includes(path, LegacyId) \/ startsWith(path, NodePrefix)

C15_SubstitutedTextNotExpanded ==
  (call.fn \in TemplateFns /\ ret.done /\ ret.passes = 1) =>
    /\ ret.value = call.affix
                   \o (IF call.path = <<>> THEN Token(call.path)
                       ELSE Replacer(call.fn, Token(call.path), call.path, call.context))
                   \o call.affix
    /\ (call.path = <<"a">> /\ Lookup(call.context, <<"a">>) = TStr(Token(<<"b">>))) =>
         ret.value = call.affix \o Token(<<"b">>) \o call.affix

\* C15 witness: "{{a}}" resolved where a holds "{{b}}" and b holds "v": the result
\* is "{{b}}".
C15_Witness ==
  /\ call.fn \in TemplateFns /\ ret.done /\ ret.passes = 1
  /\ call.path = <<"a">> /\ call.affix = <<>>
  /\ Lookup(call.context, <<"a">>) = TStr(Token(<<"b">>))
  /\ Lookup(call.context, <<"b">>) = TStr(<<"v">>)
  /\ ret.value = Token(<<"b">>)

\* C16: for every operator outside the seven supported ones, and every pair of
\* operand texts, the condition evaluator returns false and does not raise.
C16_UnknownOperatorIsFalse ==
  (call.fn \in ConditionFns /\ ret.done /\ call.operator \notin SupportedOperators)
    => (ret.value = FALSE /\ ~ret.raised)

\* C16 witness: an unsupported operator whose name suggests a test that the
\* operands would pass ("55" starts with "5") has been evaluated to false.
C16_Witness ==
  /\ call.fn \in ConditionFns /\ ret.done
  /\ call.operator = "startsWith"
  /\ call.value = <<"5", "5">> /\ call.compareValue = <<"5">>
  /\ ret.value = FALSE

\* text that denotes a number: not empty after trimming, and not NaN
IsNumericText(chars) == trim(chars) # <<>> /\ ~Number(chars).nan

\* C17: under greaterThan, lessThan, greaterThanOrEqual and lessThanOrEqual the
\* comparison is false whenever either operand is non-numeric text, the empty
\* string included, and is the numeric comparison when both operands are numeric.
C17_NonNumericComparisonIsFalse ==
  (call.fn \in ConditionFns /\ ret.done /\ call.operator \in NumericOperators)
    => /\ (~IsNumericText(call.value) \/ ~IsNumericText(call.compareValue))
            => ret.value = FALSE
       /\ (IsNumericText(call.value) /\ IsNumericText(call.compareValue))
            => ret.value =
                 CASE call.operator = "greaterThan" ->
                        NumberLess(Number(call.compareValue), Number(call.value))
                   [] call.operator = "lessThan" ->
                        NumberLess(Number(call.value), Number(call.compareValue))
                   [] call.operator = "greaterThanOrEqual" ->
                        NumberLessOrEqual(Number(call.compareValue), Number(call.value))
                   [] call.operator = "lessThanOrEqual" ->
                        NumberLessOrEqual(Number(call.value), Number(call.compareValue))

\* the ids of the listed nodes of type t that have completed
Completed(t) ==
  { nodes[i].id : i \in { j \in 1..Len(nodes) :
                            nodes[j].type = t /\ nodes[j].id \in Range(execOrder) } }

\* the listed targets of the edges that leave node id
Successors(id) ==
  { edges[i].target : i \in { j \in 1..Len(edges) :
                                edges[j].source = id /\ HasNode(nodes, edges[j].target) } }

\* the text a prompt node carries for the failure of callGeminiAPI
ErrorText == IF gemini = "unsuccessful" THEN ErrorFromGemini ELSE FailedToCallGemini

\* C18: when callGeminiAPI answers unsuccessfully or raises, the run is never
\* aborted with that error, every prompt node that ran has stored an output that
\* carries the error-tagged text, and a run that ended without another node
\* failing reports success with the successors of the prompt node executed.
C18_GeminiFailureDoesNotAbort ==
  gemini # "success" =>
    /\ response.error # GeminiError /\ response.details # GeminiError
    /\ \A p \in Completed("prompt") :
         /\ p \in DOMAIN results
         /\ results[p].kind = (IF engine = "execute" THEN "object" ELSE "string")
         /\ results[p].text = ErrorText
    /\ (pc = "done" /\ failedAt = <<>> /\ Completed("prompt") # {})
         => /\ response.success = "true"
            /\ \A p \in Completed("prompt") : Successors(p) \subseteq Range(execOrder)

\* C18 witness: callGeminiAPI raised, the prompt node 2 completed, its successor
\* 3 executed after it and the run reported success.
C18_Witness ==
  /\ gemini = "raises" /\ pc = "done" /\ response.success = "true"
  /\ 2 \in Completed("prompt") /\ 3 \in Successors(2)
  /\ Pos(execOrder, 2) < Pos(execOrder, 3)
  /\ results[2].text = FailedToCallGemini

\* the value of variables['input'] || 'No input yet' when node id ran: the output
\* of the node that ran before it
InputBefore(id) ==
  IF Pos(execOrder, id) = 1 \/ Falsy(results[execOrder[Pos(execOrder, id) - 1]])
  THEN Str("No input yet")
  ELSE results[execOrder[Pos(execOrder, id) - 1]]

\* C19 as stated: a node of an unrecognised type stores a tagged "unknown node
\* type" output in either handler.
C19_UnknownTypeIsTagged ==
  \A u \in Completed("custom") :
    u \in DOMAIN results /\ results[u] = Obj(UnknownNodeType, FALSE)

\* C19: a node of an unrecognised type that ran has stored an output, the tagged
\* "Unknown node type" object in /api/workflows/execute and the unchanged current
\* input in WorkflowExecutor, and a run that ended without a node failing
\* reports success with the successors of that node executed.
C19_UnknownTypeStoredAndTraversed ==
  /\ \A u \in Completed("custom") :
       /\ u \in DOMAIN results
       /\ engine = "execute" => results[u] = Obj(UnknownNodeType, FALSE)
       /\ engine = "nodes" => results[u] = InputBefore(u)
  /\ (pc = "done" /\ failedAt = <<>> /\ Completed("custom") # {})
       => /\ response.success = "true"
          /\ \A u \in Completed("custom") : Successors(u) \subseteq Range(execOrder)

\* C19 witness: WorkflowExecutor ran node 2 of an unrecognised type after the
\* input node 1, stored the input's text as its output, went on to its
\* successor 3 and the run reported success.
C19_Witness ==
  /\ engine = "nodes" /\ pc = "done" /\ response.success = "true"
  /\ 2 \in Completed("custom") /\ 3 \in Successors(2)
  /\ results[2] = Str("a")
  /\ Pos(execOrder, 2) < Pos(execOrder, 3)

\* C20: no run is aborted by the insert of a node execution record, whether the
\* insert raises or is rejected: no response carries the error of the insert.
C20_InsertFailureNeverAborts ==
  \A id \in NodeIds : supabase[id] # "stored" => response.error # ErrInsert

\* the row of node_executions written for node id
Row(id, status, error_message) ==
  [node_id |-> id, status |-> status, error_message |-> error_message]

\* C21: in /api/workflows/execute every dispatch of a node whose insert is stored
\* leaves a record for that node: a completed one once the action succeeded, a
\* failed one carrying the error message once the action raised, and the failed
\* record is in the table when the run-level handler answers with that error;
\* no record exists for a node that was not dispatched.
C21_EveryDispatchIsRecorded ==
  engine = "execute" =>
    /\ \A id \in Range(execOrder) :
         supabase[id] = "stored" => Row(id, "completed", "") \in node_executions
    /\ \A i \in 1..Len(failedAt) :
         supabase[failedAt[i]] = "stored" =>
           /\ response.success = "false" /\ response.error # ""
           /\ Row(failedAt[i], "failed", response.error) \in node_executions
    /\ \A row \in node_executions :
         \/ row.status = "completed" /\ row.node_id \in Range(execOrder)
         \/ row.status = "failed" /\ row.node_id \in Range(failedAt)

\* C21 witness: node 1 completed and node 2 raised; the table holds the completed
\* record of node 1 and the failed record of node 2 with the error of the response.
C21_Witness ==
  /\ engine = "execute" /\ pc = "done"
  /\ execOrder = <<1>> /\ failedAt = <<2>>
  /\ node_executions = {Row(1, "completed", ""), Row(2, "failed", ErrNode)}
  /\ response.error = ErrNode

\* C22: every response to a run request carries a boolean success flag, whether
\* the run succeeded, a node raised or no start node was found.
C22_ResponseCarriesSuccessFlag ==
  pc = "done" => response.success \in {"true", "false"}

\* C23: the executedNodes value of a successful response of /api/workflows/nodes
\* is the number of nodes that executed in the run, which is the number of
\* entries of the returned nodeOutputs.
C23_ExecutedNodesIsTheNumberExecuted ==
  (engine = "nodes" /\ pc = "done" /\ response.success = "true")
    => /\ response.executedNodes = Len(execOrder)
       /\ response.executedNodes = Cardinality(DOMAIN results)

\* a run of a scenario graph has ended
ScenarioEnded(scenario) ==
  call.fn = FnScenario /\ call.scenario = scenario /\ ret.done /\ ret.stage = "end"

\* C24: in scenario B with textValue v, compareValue c and operator op, the
\* result the logic node records is evaluate(v, c, op), and the nodes that ran
\* are the input node, the logic node and the output node on the edge whose
\* label is that result, and no other.
C24_LogicScenarioFollowsEvaluation ==
  (ScenarioEnded("B") /\ call.logic.compareValue.chars # <<>>
     /\ call.logic.operator \in SupportedOperators)
    => LET evaluation == evaluateCondition(call.input.textValue.chars,
                                         call.logic.compareValue.chars,
                                         call.logic.operator)
       IN /\ ret.recorded = BoolText(evaluation)
          /\ ret.ran = <<InputId, LogicId, IF evaluation THEN Output1Id ELSE Output2Id>>

\* C25: in scenario A with a non-empty textValue v, the data field of the output
\* node's result is v.
C25_TextScenarioReturnsInput ==
  (ScenarioEnded("A") /\ call.input.textValue.chars # <<>>)
    => Field(ret.final, <<"d", "a", "t", "a">>) = call.input.textValue

\* the fields of an input node's configuration that are set
Candidates(config) ==
  { v \in {config.textValue, config.processedText, config.data,
           config.initialValue, config.description} : ~IsFalsy(v) }

Placeholders == { TStr(<<"W", "o", "r", "k", "f", "l", "o", "w", " ", "s", "t", "a", "r", "t", "e", "d">>), TStr(<<"N", "o", " ", "f", "i", "l", "e", " ", "u", "p", "l", "o", "a", "d", "e", "d">>) }

\* C26: the output of an input node is textValue when inputType is text and
\* textValue is set, processedText when inputType is file and processedText is
\* set, otherwise one of the fields that are set, and a placeholder string
\* when none of textValue, processedText, data, initialValue, description is set.
C26_InputSelectedByPriority ==
  (call.fn = FnScenario /\ call.scenario = "input" /\ ret.done)
    => LET config == call.input
       IN /\ (config.inputType = TStr(<<"t", "e", "x", "t">>) /\ ~IsFalsy(config.textValue))
               => ret.input = config.textValue
          /\ (config.inputType = TStr(<<"f", "i", "l", "e">>) /\ ~IsFalsy(config.processedText))
               => ret.input = config.processedText
          /\ Candidates(config) # {} => ret.input \in Candidates(config)
          /\ Candidates(config) = {} => ret.input \in Placeholders

\* a run executed alone, up to the stage it has reached
RECURSIVE Alone(_, _)
Alone(c, stage) ==
  CASE stage = "start" -> NotStarted
    [] stage = "input" -> AfterInput(c, <<>>)
    [] stage = "logic" -> AfterLogic(c, Alone(c, "input"))
    [] stage = "output" ->
         AfterOutput(c, Alone(c, IF c.scenario = "B" THEN "logic" ELSE "input"))

\* the nodes a run has executed, as a stage of the run alone
StageOf(r) ==
  IF ~r.done THEN "start"
  ELSE CASE Len(r.ran) = 1 -> "input"
         [] Len(r.ran) = 2 /\ r.stage = "output" -> "logic"
         [] OTHER -> "output"

Dispatches(id) == Count(execOrder, id) + Count(failedAt, id)

\* C28: in the branching strategy of either handler, for every graph, every
\* node is dispatched at most once in a run, and only after it was marked
\* visited: an edge that arrives at a visited node does not execute it again.
C28_BranchingExecutesAtMostOnce ==
  strategy = "branching" =>
    /\ \A id \in NodeIds : Dispatches(id) <= 1
    /\ Range(execOrder) \cup Range(failedAt) \subseteq visited

\* C28 witness: a completed branching run followed two edges into the same node,
\* which executed once.
C28_Witness ==
  /\ strategy = "branching" /\ pc = "done" /\ response.success = "true"
  /\ \E i, j \in 1..Len(followed) :
       /\ i < j
       /\ edges[followed[i]].target = edges[followed[j]].target
       /\ edges[followed[i]].source # edges[followed[j]].source
       /\ Count(execOrder, edges[followed[i]].target) = 1

\* the listed targets of the edges a traversal follows out of the executed node n:
\* every outgoing edge of a non-logic node, and for a logic node the first
\* outgoing edge labelled with the result the node recorded
Followable(n) ==
  LET chosen == TargetEdge(edges, n, HandleOf(results[n].result))
      targets == IF TypeOf(nodes, n) = "logic"
                 THEN (IF chosen = 0 THEN {} ELSE {edges[chosen].target})
                 ELSE { edges[i].target : i \in Range(OutgoingIdx(edges, n)) }
  IN IF n \in DOMAIN results THEN { t \in targets : HasNode(nodes, t) } ELSE {}

\* the nodes reachable from the set S along followable edges (S included)
RECURSIVE BranchReach(_)
BranchReach(S) ==
  LET T == S \cup UNION { Followable(n) : n \in S }
  IN IF T = S THEN S ELSE BranchReach(T)

\* C29: a branching run that completed without a node failing has executed
\* exactly the nodes reachable from the start node along every outgoing edge of
\* the non-logic nodes and, for a logic node, along the first outgoing edge whose
\* label is its recorded result; no other node has executed.
C29_ExecutedIsTheFollowedReach ==
  (strategy = "branching" /\ pc = "done" /\ response.success = "true")
    => Range(execOrder) = BranchReach({startNode})

\* no node id is on the call stack twice
NoReentry == \A i, j \in 1..Len(stack) : i < j => stack[i].node # stack[j].node

\* C30 (as stated): on a graph of listed nodes with a cycle, a run of
\* /api/workflows/execute in which no node failed reports success: the cycle
\* alone raises no error.
C30_CycleAloneRaisesNoError ==
  (engine = "execute" /\ WellFormed /\ ~Acyclic /\ pc = "done" /\ failedAt = <<>>)
    => response.success = "true"

\* C30 (safety part): no node is entered while it is on the call stack, no node
\* is dispatched twice, and a run in which no node failed ends in failure only
\* before any traversal was entered (no start node was found).
C30_Safe ==
  /\ NoReentry
  /\ \A id \in NodeIds : Dispatches(id) <= 1
  /\ (pc = "done" /\ failedAt = <<>> /\ response.success # "true")
       => (applied = {} /\ visited = {} /\ execOrder = <<>>)

\* C30: every run terminates (the handler responds), on every graph and under
\* either strategy, when each step that can be taken is eventually taken; and
\* throughout the run the safety part holds.
C30_RunTerminates == []C30_Safe /\ <>(pc = "done")

\* C30 witness: a run over a cyclic graph completed successfully, and an edge
\* that closes a cycle was followed into a node that had already executed.
C30_Witness ==
  /\ pc = "done" /\ response.success = "true" /\ failedAt = <<>>
  /\ \E k \in 1..Len(followed) :
       /\ OnCycle(edges[followed[k]])
       /\ Count(execOrder, edges[followed[k]].target) = 1

\* the executed logic node n has no outgoing edge labelled with its recorded result
Unmatched(n) ==
  /\ TypeOf(nodes, n) = "logic"
  /\ n \in DOMAIN results
  /\ Executed(n)
  /\ TargetEdge(edges, n, HandleOf(results[n].result)) = 0

ContextWrote ==
  { call.nodes[i].id : i \in { k \in 1..Len(ret.ran) : call.nodes[k].type \in ContextCases } }

\* C32: in utils/workflow-context.ts, after any number of node executions the
\* variables hold "<n>.output" for every executed node n, equal to
\* nodeOutputs[n], and variables["input"] is the output of the node executed last.
C32_VariablesMirrorOutputs ==
  (call.fn = FnContextRun /\ ContextWrote # {})
    => /\ \A n \in ContextWrote :
            /\ HasKey(ret.context.variables, n \o DotOutput)
            /\ Lookup(ret.context.variables, n \o DotOutput) = Lookup(ret.context.nodeOutputs, n)
       /\ HasKey(ret.context.variables, KeyInput)
       /\ \E i \in 1..Len(ret.ran) :
            /\ call.nodes[i].type \in ContextCases
            /\ \A j \in (i + 1)..Len(ret.ran) : call.nodes[j].type \notin ContextCases
            /\ Lookup(ret.context.variables, KeyInput)
                 = Lookup(ret.context.nodeOutputs, call.nodes[i].id)

\* one step removes no key of the result map (context.nodeOutputs in
\* /api/workflows/nodes) or of context.variables and leaves every entry of the
\* result map as it was
ContextGrows ==
  /\ DOMAIN results \subseteq DOMAIN results'
  /\ DOMAIN variables \subseteq DOMAIN variables'
  /\ \A n \in DOMAIN results : results'[n] = results[n]

\* C33: the result map and the variables are empty when the request arrives,
\* and every step of the run keeps every key of both and the value of every
\* entry of the result map.
C33_ContextOnlyGrows ==
  /\ (results = EmptyMap /\ variables = EmptyMap)
  /\ [][ContextGrows]_vars

\* C33 witness: a run ended after three nodes wrote their entries one after
\* another, all three still present (in /api/workflows/nodes with their
\* "<id>.output" variables).
C33_Witness ==
  /\ pc = "done" /\ engine = "nodes" /\ Len(execOrder) = 3
  /\ \A n \in Range(execOrder) : n \in DOMAIN results /\ OutputKey(n) \in DOMAIN variables

FromListed(entries) ==
  LET listed(e) == e.source \in ListedIds
  IN SelectSeq(entries, listed)

\* an edge of the request with an endpoint that matches no node
Dangling == { i \in 1..Len(edges) :
                edges[i].source \notin ListedIds \/ edges[i].target \notin ListedIds }

SourcesOf(entries) == [i \in 1..Len(entries) |-> entries[i].source]

\* C36 (as stated): on an acyclic graph the dependency-aware runs on a node list
\* and on a permutation of it execute the same nodes and hand every node the
\* same predecessor input.
C36_SameInputForEveryOrder ==
  ret.done =>
    /\ ret.first.executed = ret.second.executed
    /\ \A n \in ret.first.executed : ret.first.received[n] = ret.second.received[n]

\* C36: on an acyclic graph the dependency-aware runs on a node list and on a
\* permutation of it execute the same nodes, hand every node the outputs of the
\* same source ids in the same order, and in both runs every listed source has
\* its output stored when the node reads it.
C36_SameSourcesForEveryOrder ==
  ret.done =>
    /\ ret.first.executed = ret.second.executed
    /\ ret.first.executed = { call.nodes[i].id : i \in 1..Len(call.nodes) }
    /\ \A n \in ret.first.executed :
         /\ SourcesOf(ret.first.received[n]) = SourcesOf(ret.second.received[n])
         /\ \A i \in 1..Len(ret.first.received[n]) :
              HasNode(call.nodes, ret.first.received[n][i].source)
                => /\ ret.first.received[n][i].value.kind # "undefined"
                   /\ ret.second.received[n][i].value.kind # "undefined"

\* C36 witness: the two runs executed three nodes in different orders, and a
\* node with an incoming edge from a listed node comes before that node in the
\* permuted list.
C36_Witness ==
  /\ ret.done
  /\ Len(ret.first.order) = 3
  /\ ret.first.order # ret.second.order
  /\ \E i \in 1..Len(call.edges) :
       /\ HasNode(call.nodes, call.edges[i].source)
       /\ HasNode(call.nodes, call.edges[i].target)
       /\ \E j, k \in 1..Len(call.permuted) :
            /\ j < k
            /\ call.permuted[j].id = call.edges[i].target
            /\ call.permuted[k].id = call.edges[i].source

\* `after` is `before` without the members at the positions outside `kept`, the
\* kept members in their order
Remaining(before, after, kept) ==
  /\ Len(after) = Cardinality(kept)
  /\ \A i \in kept : after[Cardinality({ j \in kept : j <= i })] = before[i]

UpdateFns == {"updateNode", "updateNodePosition", "updateNodeExecutionResult"}

\* C37: after removeNode(id) no node has the id and no edge has it as source or
\* target, every other node and edge is kept in place and selectedNodeId is
\* unchanged; updateNode, updateNodePosition and updateNodeExecutionResult for
\* an id that matches no node leave the whole slice unchanged.
C37_RemoveNodeAndUnmatchedUpdates ==
  /\ call.fn = "removeNode" =>
       /\ \A i \in 1..Len(ret.state.nodes) : ret.state.nodes[i].id # call.nodeId
       /\ \A i \in 1..Len(ret.state.edges) :
            ret.state.edges[i].source # call.nodeId /\ ret.state.edges[i].target # call.nodeId
       /\ Remaining(ret.before.nodes, ret.state.nodes,
                    { i \in 1..Len(ret.before.nodes) : ret.before.nodes[i].id # call.nodeId })
       /\ Remaining(ret.before.edges, ret.state.edges,
                    { i \in 1..Len(ret.before.edges) :
                        /\ ret.before.edges[i].source # call.nodeId
                        /\ ret.before.edges[i].target # call.nodeId })
       /\ ret.state.selectedNodeId = ret.before.selectedNodeId
  /\ (/\ call.fn \in UpdateFns
      /\ \A i \in 1..Len(ret.before.nodes) : ret.before.nodes[i].id # call.nodeId)
       => ret.state = ret.before

\* C37 witness: after an update for an unmatched id had been dispatched,
\* removeNode removed the selected node, which had an edge, from a slice that
\* held another node and an edge between other nodes.
C37_Witness ==
  /\ call.fn = "removeNode"
  /\ ret.unmatched
  /\ ret.before.selectedNodeId = call.nodeId
  /\ \E i, j \in 1..Len(ret.before.nodes) :
       ret.before.nodes[i].id = call.nodeId /\ ret.before.nodes[j].id # call.nodeId
  /\ \E i, j \in 1..Len(ret.before.edges) :
       /\ call.nodeId \in {ret.before.edges[i].source, ret.before.edges[i].target}
       /\ call.nodeId \notin {ret.before.edges[j].source, ret.before.edges[j].target}
  /\ Len(ret.state.nodes) = 1
  /\ Len(ret.state.edges) = 1

\* C38: once uploadFiles has returned, isUploading is false and, when the
\* request was sent, every submitted file's entry has progress 100 and status
\* success or error; no step of the call lowers a file's progress.
C38_UploadEndsSettled ==
  /\ ret.pc = "returned" =>
       /\ ~ret.isUploading
       /\ ret.sent =>
            \A i \in 1..Len(call.files) :
              /\ ret.progress[call.files[i].name].progress = 100
              /\ ret.progress[call.files[i].name].status \in {"success", "error"}
  /\ (ret.inCall /\ ret.sent) =>
       \A i \in 1..Len(call.files) :
         ret.progress[call.files[i].name].progress >= ret.previous[call.files[i].name].progress

\* C38, the part that holds: once uploadFiles has returned isUploading is
\* false, every submitted file's status is success or error when the request
\* was sent, and no step taken before the return lowers a file's progress.
C38_UploadEndsSettledStatus ==
  /\ ret.pc = "returned" =>
       /\ ~ret.isUploading
       /\ ret.sent =>
            \A i \in 1..Len(call.files) :
              ret.progress[call.files[i].name].status \in {"success", "error"}
  /\ (ret.inCall /\ ret.sent) =>
       \A i \in 1..Len(call.files) :
         ret.progress[call.files[i].name].progress >= ret.previous[call.files[i].name].progress

====
